---- MODULE Spec2Model ----
(***************************************************************************)
(* mailfilter: the counting Bloom filter (bloom.F), its persistent,        *)
(* concurrent store (bloom.DB), the window reader (ntuple.Reader) and the  *)
(* classifier (classifier.Classifier).                                     *)
(*                                                                         *)
(* The filter is scaled: NumFuncs projections (8 in the source) over       *)
(* FilterSize slots (1_000_000 in the source); a counter is an unsigned    *)
(* integer of CounterBytes "bytes" of ByteBase values each (8 bytes of 256 *)
(* values in the source), so arithmetic wraps modulo CounterMod (2^64 in   *)
(* the source).  The hash is the source's inlined FNV-32, computed on      *)
(* 32-bit words kept as <<high 16 bits, low 16 bits>>.                     *)
(***************************************************************************)
EXTENDS Integers, Sequences, FiniteSets, TLC

\* ------------------------------------------------------------- bounds
NumFuncs == 2
FilterSize == 3
ByteBase == 2
CounterBytes == 2
MaxOps == 3

CounterMod == ByteBase ^ CounterBytes
MaxUint == CounterMod - 1

Funcs == 0 .. (NumFuncs - 1)
Slots == 0 .. (FilterSize - 1)

\* The windows the clients use: "bar", "baz" and "spam" as byte strings.
Windows == { <<98, 97, 114>>, <<98, 97, 122>>, <<115, 112, 97, 109>> }

\* The amounts the clients use (any uint64 is accepted by Add and Remove).
Deltas == {0, 1, 2, MaxUint}

\* ------------------------------------------------------------- documents
\* classifier.windowSize, and ntuple.bufSz scaled (4096 * 1024 in the source)
\* a slip: windows of three bytes
WindowSizeShort == 6 \div 2

WindowSize == 6
BufSz == 8

\* the texts the classifier's callers send: "foo", "bar", "foobar", "barfoo",
\* "foobarb" and "foo\nbar"
TextFoo == << 102, 111, 111 >>
TextBar == << 98, 97, 114 >>
TextFoobar == TextFoo \o TextBar
TextBarfoo == TextBar \o TextFoo
TextFoobarb == TextFoobar \o << 98 >>
TextFooNlBar == TextFoo \o << 10 >> \o TextBar

\* one full read-ahead buffer of the letter "a"
TextAs == [ k \in 1 .. BufSz |-> 97 ]

Chunks == { TextFoo, TextBar, TextFoobar, TextBarfoo, TextFoobarb, TextFooNlBar,
            TextAs }

\* what successive Read calls on a stream return before its end
ChunkLists ==
    { << >>, << TextFoo >>, << TextBar >>, << TextFoobar >>, << TextBarfoo >>,
      << TextFoobarb >>, << TextFooNlBar >>, << TextFoo, TextBar >> }

\* every WindowSize bytes in a row of some chunk
DocWindows ==
    UNION { { SubSeq(t, k, k + WindowSize - 1) : k \in 1 .. (Len(t) - WindowSize + 1) } :
                t \in Chunks }

\* ------------------------------------------------------------- FNV-32
Offset32Hi == 33052
Offset32Lo == 40389
Prime32Hi == 256
Prime32Lo == 403
Half == 2 ^ 16

RECURSIVE Xor(_, _)
Xor(a, b) ==
    IF a = 0 THEN b
    ELSE IF b = 0 THEN a
    ELSE ((a + b) % 2) + 2 * Xor(a \div 2, b \div 2)

\* s *= prime32 on a uint32 kept as <<hi, lo>>
Mul32(s) ==
    LET lo == s[2] * Prime32Lo
        mid == s[1] * Prime32Lo + s[2] * Prime32Hi + (lo \div Half)
    IN  << mid % Half, lo % Half >>

\* s ^= uint32(c), c < 2^16
Xor32(s, c) == << s[1], Xor(s[2], c) >>

RECURSIVE hashBytes(_, _)
hashBytes(s, w) ==
    IF w = << >> THEN s
    ELSE hashBytes(Xor32(Mul32(s), Head(w)), Tail(w))

hash(i, w) ==
    LET s == hashBytes(Xor32(Mul32(<< Offset32Hi, Offset32Lo >>), i), w)
    IN  ((s[1] % FilterSize) * (Half % FilterSize) + s[2]) % FilterSize

\* hash, tabulated once for the windows in use
hashTable == [ i \in Funcs, w \in Windows \cup DocWindows |-> hash(i, w) ]

H(i, w) == hashTable[i, w]

\* ------------------------------------------------------------- bloom.F
ZeroField == [ i \in Funcs |-> [ j \in Slots |-> 0 ] ]

\* a slip: the counter is overwritten instead of incremented
AddAtAssign(b, i, w, delta) ==
    [ b EXCEPT ![i][H(i, w)] = delta % CounterMod ]

\* a slip: every counter of the row is incremented
AddAtRow(b, i, w, delta) ==
    [ b EXCEPT ![i] = [ j \in Slots |-> (b[i][j] + delta) % CounterMod ] ]

\* b.Field[i][j] += delta   (one iteration of Add's loop)
AddAt(b, i, w, delta) ==
    [ b EXCEPT ![i][H(i, w)] = (@ + delta) % CounterMod ]

RECURSIVE AddLoop(_, _, _, _)
AddLoop(b, i, w, delta) ==
    IF i >= NumFuncs THEN b
    ELSE AddLoop(AddAt(b, i, w, delta), i + 1, w, delta)

FAdd(b, w, delta) == AddLoop(b, 0, w, delta)

\* one iteration of Score's loop
ScoreAt(s, b, i, w) ==
    IF s > b[i][H(i, w)] THEN b[i][H(i, w)] ELSE s

RECURSIVE ScoreLoop(_, _, _, _)
ScoreLoop(s, b, i, w) ==
    IF i >= NumFuncs THEN s
    ELSE ScoreLoop(ScoreAt(s, b, i, w), b, i + 1, w)

FScore(b, w) == ScoreLoop(MaxUint, b, 0, w)

\* a slip: the amount is not clamped to the score
ClampNone(s, delta) == delta

\* Remove's clamp: if s < delta { delta = s }
Clamp(s, delta) == IF s < delta THEN s ELSE delta

\* one iteration of Remove's loop
RemoveAt(b, i, w, delta) ==
    IF b[i][H(i, w)] < delta THEN b
    ELSE [ b EXCEPT ![i][H(i, w)] = @ - delta ]

RECURSIVE RemoveLoop(_, _, _, _)
RemoveLoop(b, i, w, delta) ==
    IF i >= NumFuncs THEN b
    ELSE RemoveLoop(RemoveAt(b, i, w, delta), i + 1, w, delta)

\* a slip: Remove without the score check and the clamp
FRemoveUnchecked(b, w, delta) == RemoveLoop(b, 0, w, delta)

FRemove(b, w, delta) ==
    LET s == FScore(b, w)
    IN  IF s = 0 THEN b
        ELSE RemoveLoop(b, 0, w, Clamp(s, delta))

\* Add wraps some counter of w
Wraps(b, w, delta) == \E i \in Funcs : b[i][H(i, w)] + delta >= CounterMod

\* ------------------------------------------------------------- encoding/binary
\* the size of the blob: numFuncs * filterSize counters of CounterBytes bytes
BlobLen == NumFuncs * FilterSize * CounterBytes

\* a slip: the counter is written least significant byte first
EncodeCounterLE(c) ==
    [ k \in 1 .. CounterBytes |-> (c \div (ByteBase ^ (k - 1))) % ByteBase ]

\* binary.BigEndian.PutUint64: most significant byte first
EncodeCounter(c) ==
    [ k \in 1 .. CounterBytes |-> (c \div (ByteBase ^ (CounterBytes - k))) % ByteBase ]

RECURSIVE EncodeRowFrom(_, _)
EncodeRowFrom(row, j) ==
    IF j >= FilterSize THEN << >>
    ELSE EncodeCounter(row[j]) \o EncodeRowFrom(row, j + 1)

\* one row Field[i] of the grid, in slot order
EncodeRow(row) == EncodeRowFrom(row, 0)

RECURSIVE SerializeFrom(_, _)
SerializeFrom(b, i) ==
    IF i >= NumFuncs THEN << >>
    ELSE EncodeRow(b[i]) \o SerializeFrom(b, i + 1)

\* binary.Write(f, binary.BigEndian, &d.f): the whole grid, row by row
Serialize(b) == SerializeFrom(b, 0)

RECURSIVE DecodeCounterFrom(_, _)
DecodeCounterFrom(bs, acc) ==
    IF bs = << >> THEN acc
    ELSE DecodeCounterFrom(Tail(bs), acc * ByteBase + Head(bs))

\* binary.BigEndian.Uint64
DecodeCounter(bs) == DecodeCounterFrom(bs, 0)

\* binary.Read(fh, binary.BigEndian, &db.f) on at least BlobLen bytes
Deserialize(data) ==
    [ i \in Funcs |-> [ j \in Slots |->
        DecodeCounter(SubSeq(data,
                             (i * FilterSize + j) * CounterBytes + 1,
                             (i * FilterSize + j + 1) * CounterBytes)) ] ]

\* a file of the root directory: exists, can be opened for reading, its bytes
NoFile == [ exists |-> FALSE, readable |-> FALSE, data |-> << >> ]
FileOf(data) == [ exists |-> TRUE, readable |-> TRUE, data |-> data ]

\* os.Open fails (with an *os.PathError, as every failure of os.Open is)
OpenFails(file) == ~file.exists \/ ~file.readable

\* NewDB's result: err (an error is returned), loaded (the filter was read
\* from the file), f (the store's filter, when err is FALSE)
NewDB(file) ==
    IF OpenFails(file)
    THEN [ err |-> FALSE, loaded |-> FALSE, f |-> ZeroField ]
    ELSE IF Len(file.data) < BlobLen
    THEN [ err |-> TRUE, loaded |-> FALSE, f |-> ZeroField ]
    ELSE [ err |-> FALSE, loaded |-> TRUE, f |-> Deserialize(file.data) ]

\* sync.RWMutex: w is the goroutine holding Lock ("none" when free), r the
\* goroutines holding RLock
FreeMu == [ w |-> "none", r |-> {} ]

\* a slip: the exclusive lock is granted whatever the lock's state
CanLockAlways(m) == TRUE

\* Lock is granted when nobody holds the mutex
CanLock(m) == m.w = "none" /\ m.r = {}

\* a slip: the read lock is granted while a writer holds the mutex
CanRLockAlways(m) == TRUE

\* RLock is granted when no writer holds the mutex
CanRLock(m) == m.w = "none"

\* where persist's caller continues after binary.Write failed: persist has
\* returned the error, Run logs it
AfterWriteErrorRename == "rename"

AfterWriteError == "failed"

\* where Run continues after os.Rename failed
AfterRenameErrorClear == "clear"

AfterRenameError == "failed"

\* ------------------------------------------------------------- float64
\* A float64 is kept as a fixed-point integer: the value v stands for the
\* real v / Scale.  Division, exp and log round to that grid (towards minus
\* infinity), as the float64 operations round to theirs.
Scale == 10 ^ 4

\* |x| above which exp(x) is computed as exp(ExpLimit): past it 1 / (1 + e^x)
\* is below the grid's resolution
ExpLimit == 12 * Scale

\* a * b for fixed-point a and b
MulFix(a, b) == (a \div Scale) * b + ((a % Scale) * b) \div Scale

\* sum of the series x^k / k! from the term given, for 0 <= x <= 1
RECURSIVE ExpSeries(_, _, _)
ExpSeries(x, term, k) ==
    IF term = 0 THEN 0
    ELSE term + ExpSeries(x, (term * x) \div (k * Scale), k + 1)

RECURSIVE ExpPos(_)
ExpPos(x) ==
    IF x <= Scale THEN ExpSeries(x, Scale, 1)
    ELSE MulFix(ExpPos(x - Scale), ExpSeries(Scale, Scale, 1))

\* math.Exp
Exp(x) ==
    IF x >= 0 THEN ExpPos(IF x > ExpLimit THEN ExpLimit ELSE x)
    ELSE (Scale * Scale) \div ExpPos(IF -x > ExpLimit THEN ExpLimit ELSE -x)

RECURSIVE LogSearch(_, _, _)
LogSearch(y, lo, hi) ==
    IF hi - lo <= 1 THEN lo
    ELSE LET mid == (lo + hi) \div 2
         IN  IF Exp(mid) <= y THEN LogSearch(y, mid, hi)
                              ELSE LogSearch(y, lo, mid)

\* math.Log of 0 < y <= 1: the largest l on the grid with exp(l) <= y
Log(y) == LogSearch(y, -ExpLimit, 1)

\* a slip: the likelihood of a never seen window is 0 instead of 0.5
NeutralZero == 0 * Scale

\* 0.5
Neutral == Scale \div 2

\* a slip: the ratio is returned whatever its range
SpamLikelihoodUnchecked(w) ==
    IF w.Total = 0 THEN Neutral ELSE (w.Spam * Scale) \div w.Total

\* Word.SpamLikelihood
SpamLikelihood(w) ==
    IF w.Total = 0 THEN Neutral
    ELSE LET score == (w.Spam * Scale) \div w.Total
         IN  IF score < 0 \/ score > Scale THEN Scale \div 2 ELSE score

\* sigmoid panics outside [0, 1]
SigmoidPanics(x) == x < 0 \/ x > Scale

\* a slip: the midpoint is left out of the sigmoid
sigmoidNoMidpoint(x) == (Scale * Scale) \div (Scale + Exp(-(5 * x)))

\* sigmoid: max / (1.0 + math.Exp(-k*(x-midpoint))), k = 5, midpoint = 0.5, max = 1
sigmoid(x) == (Scale * Scale) \div (Scale + Exp(-(5 * (x - Scale \div 2))))

\* eta *= alpha, alpha = 0.975
Decay(eta) == (eta * 975) \div 1000

\* score := 1.0 / (1.0 + math.Exp(eta))
ScoreOf(eta) == (Scale * Scale) \div (Scale + Exp(eta))

\* a slip: the comparisons are not strict
LabelOfInclusive(score, tUnsure, tSpam) ==
    LET l == IF score >= tUnsure THEN "unsure" ELSE "ham"
    IN  IF score >= tSpam THEN "spam" ELSE l

\* Label: "ham"; if Score > thresholdUnsure: "unsure"; if Score > thresholdSpam: "spam"
LabelOf(score, tUnsure, tSpam) ==
    LET l == IF score > tUnsure THEN "unsure" ELSE "ham"
    IN  IF score > tSpam THEN "spam" ELSE l

\* min and max start at +Inf and -Inf: inf is 1, -1, or 0 for the number v
PosInf == [ inf |-> 1, v |-> 0 ]
NegInf == [ inf |-> -1, v |-> 0 ]
Num(v) == [ inf |-> 0, v |-> v ]

\* if eta < min { min = eta }
MinOf(m, eta) == IF m.inf = 1 \/ (m.inf = 0 /\ eta < m.v) THEN Num(eta) ELSE m

\* if eta > max { max = eta }
MaxOf(m, eta) == IF m.inf = -1 \/ (m.inf = 0 /\ eta > m.v) THEN Num(eta) ELSE m

\* ------------------------------------------------------------- ntuple.Reader
\* a stream: the chunks its Read calls return one by one, then its end for
\* ever: "eof", or "err" for a read error that is not io.EOF
StreamOf(chunks, end) == [ chunks |-> chunks, end |-> end ]

\* r.in.Read(r.buf)
Read(in) ==
    IF in.chunks # << >>
    THEN [ data |-> Head(in.chunks), err |-> "nil",
           in |-> [ in EXCEPT !.chunks = Tail(@) ] ]
    ELSE [ data |-> << >>, err |-> in.end, in |-> in ]

\* ntuple.New
NewReader(in) == [ buf |-> << >>, in |-> in ]

\* make([]byte, bufSz)
ZeroBuf == [ k \in 1 .. BufSz |-> 0 ]

\* the bytes Next skips windows for
IsControl(b) == b < 32 \/ b = 193 \/ b = 194 \/ (b >= 245 /\ b <= 253)

\* the refill at the top of Reader.Next's loop, for len(d) = n
Refill(r, n) ==
    IF Len(r.buf) >= n THEN [ err |-> "nil", buf |-> r.buf, in |-> r.in ]
    ELSE LET rr == Read(r.in)
         IN  IF rr.err = "err"
             THEN [ err |-> "err", buf |-> ZeroBuf, in |-> rr.in ]
             ELSE [ err |-> "nil", buf |-> rr.data, in |-> rr.in ]

\* Reader.Next(d) with len(d) = n: err is "nil" (d is the window), "eof" or
\* "err"; r is the reader afterwards
RECURSIVE NextLen(_, _)
NextLen(r, n) ==
    LET r1 == Refill(r, n)
    IN  IF r1.err = "err"
        THEN [ err |-> "err", d |-> << >>, r |-> [ buf |-> r1.buf, in |-> r1.in ] ]
        ELSE IF Len(r1.buf) < n
        THEN [ err |-> "eof", d |-> << >>, r |-> [ buf |-> r1.buf, in |-> r1.in ] ]
        ELSE LET d == SubSeq(r1.buf, 1, n)
                 r2 == [ buf |-> Tail(r1.buf), in |-> r1.in ]
             IN  IF \E idx \in 1 .. n : IsControl(d[idx])
                 THEN NextLen(r2, n)
                 ELSE [ err |-> "nil", d |-> d, r |-> r2 ]

\* Reader.Next(buf) as Train and Classify call it: len(buf) = windowSize
ReaderNext(r) == NextLen(r, WindowSize)

\* ------------------------------------------------------------- classifier
\* a slip: equal thresholds are let through
MisorderedStrict(tUnsure, tSpam) == tUnsure > tSpam

\* main: if *thresholdUnsure >= *thresholdSpam { ...; os.Exit(1) }
Misordered(tUnsure, tSpam) == tUnsure >= tSpam

NoClassifier == [ by |-> "none", thresholdUnsure |-> 0, thresholdSpam |-> 0 ]

\* classifier.New: the thresholds are stored as given
New(by, tUnsure, tSpam) ==
    [ by |-> by, thresholdUnsure |-> tUnsure, thresholdSpam |-> tSpam ]

\* getWord: Total from the total store, Spam from the spam store
getWord(total, spam, word) ==
    [ Text |-> word, Total |-> FScore(total, word), Spam |-> FScore(spam, word) ]

\* a slip: the spam store is updated whatever the label
trainWordBoth(total, spam, word, isSpam, factor) ==
    [ total |-> FAdd(total, word, factor), spam |-> FAdd(spam, word, factor),
      adds |-> << "total", "spam" >> ]

\* a slip: a spam window is added to the spam store alone
trainWordEither(total, spam, word, isSpam, factor) ==
    [ total |-> IF isSpam THEN total ELSE FAdd(total, word, factor),
      spam |-> IF isSpam THEN FAdd(spam, word, factor) ELSE spam,
      adds |-> IF isSpam THEN << "spam" >> ELSE << "total" >> ]

\* a slip: the Adds of a failed Train are undone
TrainFailedUndo(before, now) == before

\* if err != nil { return err }: the store is left as the Adds made it
TrainFailed(before, now) == now

\* trainWord: c.dbTotal.Add(word, factor); if spam { c.dbSpam.Add(word, factor) }
\* (adds: the stores Add was called on, in order)
trainWord(total, spam, word, isSpam, factor) ==
    [ total |-> FAdd(total, word, factor),
      spam |-> IF isSpam THEN FAdd(spam, word, factor) ELSE spam,
      adds |-> IF isSpam THEN << "total", "spam" >> ELSE << "total" >> ]

\* DB.Add: d.dirty = true
DBAddDirty(flag) == TRUE

\* a slip: Score marks the store dirty as Add does
DBScoreMarks(flag) == TRUE

\* DB.Score: d.dirty is not assigned
DBScoreDirty(flag) == flag

\* the verbose argument of Classify: nil, a writer, a writer whose writes fail
Verboses == { "nil", "writer", "failing" }

\* what has reached the verbose writer: lines written, writes that failed
NoSink == [ lines |-> 0, errs |-> 0 ]

\* if verbose != nil { fmt.Fprintf(verbose, ...) }: one write, when verbose is set
WriteVerbose(v, s) ==
    IF v = "nil" THEN s
    ELSE IF v = "writer" THEN [ s EXCEPT !.lines = @ + 1 ]
    ELSE [ s EXCEPT !.errs = @ + 1 ]

\* a slip: a failed write to verbose becomes the error of Classify
ClassifyErrFromSink(s) == s.errs > 0

\* return result, nil: what fmt.Fprintf and fmt.Fprintln returned is dropped
ClassifyErr(s) == FALSE

\* ------------------------------------------------------------- state
VARIABLES
    f,        \* F.Field: the counter grid (DB.f in the store)
    net,      \* per window: deltas added minus deltas removed (bookkeeping)
    ref,      \* the tests' testDB given the same calls: its map m
    nops,     \* number of calls made so far
    last,     \* the latest filter call <<op, w, delta>>
    prev,     \* the call before it
    pre,      \* the grid before the latest call
    pre2,     \* the grid before the call before it
    wrapped,  \* some Add has wrapped a counter
    overRemoved, \* some Remove(w, d) had d above w's exact count
    dirty,    \* DB.dirty
    mu,       \* DB.mu
    disk,     \* the file root/name
    tmp,      \* the temporary file of the persist pass in progress
    strays,   \* temporary files left behind in root
    nfail,    \* persist passes that have failed
    run,      \* where Run is
    done,     \* Run's local done
    cancelled, \* ctx has been cancelled
    buf,      \* persist: the bytes binary.Write has encoded so far
    enc,      \* persist: the next row binary.Write encodes
    werr,     \* persist: binary.Write returned an error
    cl,       \* the calling goroutines
    lin,      \* the grid with every call applied whole, in lock order (bookkeeping)
    snap,     \* lin when the persist pass took its read lock (bookkeeping)
    diskSnap, \* the grid whose blob is at root/name (bookkeeping)
    passes,   \* the persist passes that succeeded: "none" so far, or whether the
              \* latest wrote the grid of the pass before it, and then whether
              \* with the "same" bytes or not (bookkeeping)
    reopened  \* the result of NewDB on root/name

fvars == << net, ref, last, prev, pre, pre2, wrapped, overRemoved >>

dbvars == << dirty, mu, tmp, strays, nfail, run, done, cancelled, buf, enc,
             werr, cl, lin, snap, diskSnap, passes >>

\* ------------------------------------------------------------- classifier state
VARIABLES
    clf,       \* the Classifier (its thresholds; by: who constructed it)
    exited,    \* main has called os.Exit(1)
    dbTotal,   \* the filter of c.dbTotal
    dbSpam,    \* the filter of c.dbSpam
    call,      \* the Train or Classify call in progress
    rd,        \* the call's ntuple.Reader
    eta,       \* Classify's eta
    etaMin,    \* Classify's min
    etaMax,    \* Classify's max
    result,       \* what the latest call returned
    sink,      \* what the call has written to verbose
    cdirty,    \* DB.dirty of c.dbTotal and of c.dbSpam
    emitted,   \* the windows Reader.Next has returned in the call (bookkeeping)
    adds,      \* the Add calls the call has made: <<store, window, factor>> (bookkeeping)
    preTotal,  \* dbTotal when the call was entered (bookkeeping)
    preSpam,   \* dbSpam when the call was entered (bookkeeping)
    trained,   \* per window: the factors trained, n in all, k as spam (bookkeeping)
    trains,    \* the Train calls of "foo" and "bar" returned so far (bookkeeping)
    offScript, \* some Train call was another one (bookkeeping)
    left       \* the calls the callers still make

\* ------------------------------------------------------------- reader state
VARIABLES
    src,       \* the io.Reader given to ntuple.New, as it was given
    winLen,    \* len(d) of the Next calls
    reader,    \* the Reader
    got,       \* the windows Next has returned so far (bookkeeping)
    nextErr    \* what the latest Next returned; "none" before the first call

rvars == << src, winLen, reader, got, nextErr >>

\* no reader-only run: a Reader on an empty stream, Next never called
RIdle ==
    /\ src = StreamOf(<< >>, "eof")
    /\ winLen = WindowSize
    /\ reader = NewReader(StreamOf(<< >>, "eof"))
    /\ got = << >>
    /\ nextErr = "none"

\* ------------------------------------------------------------- server state
VARIABLES
    resp       \* what the training handler has answered: "none" before a request,
               \* "pending" while Train runs, else "405", "panic", "500" or "200"

hvars == << resp >>

HIdle == resp = "none"

\* ------------------------------------------------------------- goroutines on two stores
MaxTrainers == 2
Trainers == 1 .. MaxTrainers

VARIABLES
    tw,        \* per training goroutine: where its trainWord call is
    gw         \* where the getWord call of the classifying goroutine is

kvars == << tw, gw >>

NoTrainWord == [ pc |-> "idle", word |-> << >>, spam |-> FALSE, factor |-> 0 ]
NoGetWord == [ pc |-> "idle", word |-> << >>, Total |-> 0, Spam |-> 0 ]

KIdle ==
    /\ tw = [ t \in Trainers |-> NoTrainWord ]
    /\ gw = NoGetWord

\* ------------------------------------------------------------- interval state
VARIABLES
    tree,      \* the interval Tree
    added,     \* the keys of Set.m: the values added so far
    ivs        \* what the latest slice call returned, and which slice it was

ivars == << tree, added, ivs >>

\* a nil *protoVEB, and the zero Tree
Nil == [ u |-> 0, cluster |-> << >>, summary |-> {} ]
NoTree == [ Max |-> 0, root |-> Nil ]
NoSlice == [ called |-> FALSE, by |-> "none", panic |-> FALSE, res |-> << >> ]

IIdle ==
    /\ tree = NoTree
    /\ added = {}
    /\ ivs = NoSlice

xvars == << hvars, kvars, ivars >>

XIdle == HIdle /\ KIdle /\ IIdle

cvars == << clf, exited, dbTotal, dbSpam, call, rd, eta, etaMin, etaMax, result,
            sink, cdirty, emitted, adds, preTotal, preSpam, trained, trains, offScript, left >>

NoCallC == [ op |-> "none", stream |-> StreamOf(<< >>, "eof"), spam |-> FALSE,
             factor |-> 0, verbose |-> "nil" ]

NoRes == [ op |-> "none", stream |-> StreamOf(<< >>, "eof"), spam |-> FALSE,
           factor |-> 0, err |-> FALSE, readErr |-> FALSE, panic |-> FALSE,
           score |-> 0, label |-> "none", eta |-> 0, min |-> PosInf,
           max |-> NegInf, windows |-> 0, verbose |-> "nil" ]

\* the Train calls the end-to-end runs count: text, as spam
ScriptKinds == { << << TextFoo >>, FALSE >>, << << TextFoo >>, TRUE >>,
                 << << TextBar >>, FALSE >>, << << TextBar >>, TRUE >> }

\* the classifier's state before main or any caller has run, the two stores
\* holding the grids total and spam; n calls to come
CStart(total, spam, n) ==
    /\ clf = NoClassifier
    /\ exited = FALSE
    /\ dbTotal = total
    /\ dbSpam = spam
    /\ call = NoCallC
    /\ rd = NewReader(StreamOf(<< >>, "eof"))
    /\ eta = 0
    /\ etaMin = PosInf
    /\ etaMax = NegInf
    /\ result = NoRes
    /\ sink = NoSink
    /\ cdirty = [ total |-> FALSE, spam |-> FALSE ]
    /\ emitted = << >>
    /\ adds = << >>
    /\ preTotal = ZeroField
    /\ preSpam = ZeroField
    /\ trained = [ w \in DocWindows |-> [ n |-> 0, k |-> 0 ] ]
    /\ trains = [ x \in ScriptKinds |-> 0 ]
    /\ offScript = FALSE
    /\ left = n

\* the same with two empty stores
CIdle(n) == CStart(ZeroField, ZeroField, n)

vars == << f, nops, fvars, dbvars, disk, reopened, cvars, rvars, xvars >>

NoCall == << "none", << >>, 0 >>

Procs == { "c1", "c2" }

IdleClient == [ pc |-> "idle", op |-> "none", w |-> << >>, d |-> 0,
                i |-> 0, s |-> 0, exp |-> 0 ]

NotOpened == [ opened |-> FALSE, err |-> FALSE, loaded |-> FALSE, f |-> ZeroField ]

Opened(res) == [ opened |-> TRUE, err |-> res.err, loaded |-> res.loaded, f |-> res.f ]

\* the bookkeeping of the filter-only specification, at rest
\* testDB.Add: t.m[string(w)] += factor
TestDBAdd(m, w, factor) == [ m EXCEPT ![w] = (@ + factor) % CounterMod ]

\* testDB.Remove: if t.m[string(w)] >= factor { t.m[string(w)] -= factor }
TestDBRemove(m, w, factor) ==
    IF m[w] >= factor THEN [ m EXCEPT ![w] = @ - factor ] ELSE m

\* testDB.Score: a missing key reads as 0
TestDBScore(m, w) == m[w]

FIdle ==
    /\ net = [ w \in Windows |-> 0 ]
    /\ ref = [ w \in Windows |-> 0 ]
    /\ last = NoCall
    /\ prev = NoCall
    /\ pre = ZeroField
    /\ pre2 = ZeroField
    /\ wrapped = FALSE
    /\ overRemoved = FALSE

\* the store's state right after NewDB returned a store with filter g
DBIdle(g) ==
    /\ dirty = FALSE
    /\ mu = FreeMu
    /\ tmp = NoFile
    /\ strays = 0
    /\ nfail = 0
    /\ run = "select"
    /\ done = FALSE
    /\ cancelled = FALSE
    /\ buf = << >>
    /\ enc = 0
    /\ werr = FALSE
    /\ cl = [ p \in Procs |-> IdleClient ]
    /\ lin = g
    /\ snap = g
    /\ diskSnap = g
    /\ passes = "none"

\* ------------------------------------------------------------- the filter alone
InitF ==
    /\ f = ZeroField
    /\ nops = 0
    /\ FIdle
    /\ XIdle
    /\ DBIdle(ZeroField)
    /\ disk = NoFile
    /\ reopened = NotOpened
    /\ CIdle(0)
    /\ RIdle

CallAdd(w, delta) ==
    /\ nops < MaxOps
    /\ f' = FAdd(f, w, delta)
    /\ net' = [ net EXCEPT ![w] = @ + delta ]
    /\ ref' = TestDBAdd(ref, w, delta)
    /\ wrapped' = (wrapped \/ Wraps(f, w, delta))
    /\ nops' = nops + 1
    /\ last' = << "add", w, delta >>
    /\ prev' = last
    /\ pre' = f
    /\ pre2' = pre
    /\ UNCHANGED << cvars, rvars, xvars, overRemoved, dbvars, disk, reopened >>

CallRemove(w, delta) ==
    /\ nops < MaxOps
    /\ f' = FRemove(f, w, delta)
    /\ net' = [ net EXCEPT ![w] = @ - delta ]
    /\ ref' = TestDBRemove(ref, w, delta)
    /\ overRemoved' = (overRemoved \/ delta > net[w])
    /\ nops' = nops + 1
    /\ last' = << "remove", w, delta >>
    /\ prev' = last
    /\ pre' = f
    /\ pre2' = pre
    /\ UNCHANGED << cvars, rvars, xvars, wrapped, dbvars, disk, reopened >>

\* F.Score(w): the grid is only read; last[3] is the score returned
CallScore(w) ==
    /\ nops < MaxOps
    /\ f' = f
    /\ nops' = nops + 1
    /\ last' = << "score", w, FScore(f, w) >>
    /\ prev' = last
    /\ pre' = f
    /\ pre2' = pre
    /\ UNCHANGED << cvars, rvars, xvars, net, ref, wrapped, overRemoved, dbvars, disk,
                    reopened >>

NextF ==
    \/ \E w \in Windows, delta \in Deltas : CallAdd(w, delta)
    \/ \E w \in Windows, delta \in Deltas : CallRemove(w, delta)
    \/ \E w \in Windows : CallScore(w)

SpecF == InitF /\ [][NextF]_vars

\* ------------------------------------------------------------- claims on the filter

C3_ScoreAfterAdd ==
    (last[1] = "add") => FScore(f, last[2]) >= last[3]

\* C4: Add(w, d) immediately followed by Remove(w, d) leaves every counter,
\* and so Score(w), as it was before the Add.
C4_AddRemoveRestores ==
    (prev[1] = "add" /\ last[1] = "remove" /\ prev[2] = last[2] /\ prev[3] = last[3])
        => (f = pre2 /\ FScore(f, last[2]) = FScore(pre2, last[2]))

\* ------------------------------------------------------------- bloom.DB
\* Every statement of Run, persist, Add, Remove and Score that touches shared
\* state is a step of its own, so the goroutines interleave between any two
\* of them.  Run reads and writes d.dirty without holding d.mu: these are the
\* steps RunCheck and RunClear.  The K loop iterations of a filter call, and
\* the rows binary.Write encodes, are separate steps too: only d.mu keeps
\* other goroutines from seeing the grid between them.
MaxFail == 1
MaxCalls == 2

\* the windows and amounts the store's callers use
DBWindows == { <<98, 97, 114>>, <<115, 112, 97, 109>> }
DBDeltas == {1, 2}

\* the amounts added by the callers of a store that is persisted
DBAddDeltas == { 1 }

\* the lengths at which a failing write to the temporary file stops
PartialLens == { 0, BlobLen \div 2, BlobLen - 1 }

\* the file root/name when the store is constructed: absent, or the blob of
\* an earlier run
InitDisks == { NoFile, FileOf(Serialize(FAdd(ZeroField, <<98, 97, 114>>, 1))) }

InitDB ==
    /\ disk \in InitDisks
    /\ f = NewDB(disk).f
    /\ nops = 0
    /\ FIdle
    /\ XIdle
    /\ DBIdle(NewDB(disk).f)
    /\ reopened = NotOpened
    /\ CIdle(0)
    /\ RIdle

\* a slip: the loop goes on whatever done is
LoopNextAlways == "select"

\* Run's loop condition, evaluated after a pass of the loop body
LoopNext == IF done THEN "returned" ELSE "select"

RunUnchanged == << f, nops, fvars, cl, lin, reopened >>

\* a caller enters DB.Add, DB.Remove or DB.Score
ClientCall(p, op, w, d) ==
    /\ cl[p].pc \in { "idle", "scored" }
    /\ ~cancelled
    /\ nops < MaxCalls
    /\ nops' = nops + 1
    /\ cl' = [ cl EXCEPT ![p] = [ IdleClient EXCEPT !.pc = "lock", !.op = op,
                                                     !.w = w, !.d = d ] ]
    /\ UNCHANGED << cvars, rvars, xvars, f, fvars, dirty, mu, disk, tmp, strays, nfail, run, done,
                    cancelled, buf, enc, werr, lin, snap, diskSnap, passes,
                    reopened >>

\* d.mu.Lock() in Add and Remove
DBLock(p) ==
    /\ cl[p].pc = "lock"
    /\ cl[p].op \in { "add", "remove" }
    /\ CanLock(mu)
    /\ mu' = [ mu EXCEPT !.w = p ]
    /\ lin' = IF cl[p].op = "add" THEN FAdd(lin, cl[p].w, cl[p].d)
                                  ELSE FRemove(lin, cl[p].w, cl[p].d)
    /\ cl' = [ cl EXCEPT ![p].pc = IF cl[p].op = "add" THEN "body" ELSE "rscore" ]
    /\ UNCHANGED << cvars, rvars, xvars, f, nops, fvars, dirty, disk, tmp, strays, nfail, run, done,
                    cancelled, buf, enc, werr, snap, diskSnap, passes,
                    reopened >>

\* F.Remove: s := b.Score(w); return when s == 0; clamp delta
DBRemoveScore(p) ==
    /\ cl[p].pc = "rscore"
    /\ LET s == FScore(f, cl[p].w)
       IN  cl' = [ cl EXCEPT ![p].s = s,
                             ![p].d = IF s = 0 THEN @ ELSE Clamp(s, @),
                             ![p].pc = IF s = 0 THEN "dirty" ELSE "body" ]
    /\ UNCHANGED << cvars, rvars, xvars, f, nops, fvars, dirty, mu, disk, tmp, strays, nfail, run,
                    done, cancelled, buf, enc, werr, lin, snap, diskSnap, passes,
                    reopened >>

\* one iteration of the loop of F.Add or F.Remove
DBStep(p) ==
    /\ cl[p].pc = "body"
    /\ f' = IF cl[p].op = "add" THEN AddAt(f, cl[p].i, cl[p].w, cl[p].d)
                                ELSE RemoveAt(f, cl[p].i, cl[p].w, cl[p].d)
    /\ cl' = [ cl EXCEPT ![p].i = @ + 1,
                         ![p].pc = IF cl[p].i + 1 >= NumFuncs THEN "dirty" ELSE "body" ]
    /\ UNCHANGED << cvars, rvars, xvars, nops, fvars, dirty, mu, disk, tmp, strays, nfail, run, done,
                    cancelled, buf, enc, werr, lin, snap, diskSnap, passes,
                    reopened >>

\* d.dirty = true
DBSetDirty(p) ==
    /\ cl[p].pc = "dirty"
    /\ dirty' = TRUE
    /\ cl' = [ cl EXCEPT ![p].pc = "unlock" ]
    /\ UNCHANGED << cvars, rvars, xvars, f, nops, fvars, mu, disk, tmp, strays, nfail, run, done,
                    cancelled, buf, enc, werr, lin, snap, diskSnap, passes,
                    reopened >>

\* the deferred d.mu.Unlock(); the call returns
DBUnlock(p) ==
    /\ cl[p].pc = "unlock"
    /\ mu' = [ mu EXCEPT !.w = "none" ]
    /\ cl' = [ cl EXCEPT ![p] = IdleClient ]
    /\ UNCHANGED << cvars, rvars, xvars, f, nops, fvars, dirty, disk, tmp, strays, nfail, run, done,
                    cancelled, buf, enc, werr, lin, snap, diskSnap, passes,
                    reopened >>

\* d.mu.RLock() in Score
DBRLock(p) ==
    /\ cl[p].pc = "lock"
    /\ cl[p].op = "score"
    /\ CanRLock(mu)
    /\ mu' = [ mu EXCEPT !.r = @ \cup {p} ]
    /\ cl' = [ cl EXCEPT ![p].pc = "sread", ![p].s = MaxUint,
                         ![p].exp = FScore(lin, cl[p].w) ]
    /\ UNCHANGED << cvars, rvars, xvars, f, nops, fvars, dirty, disk, tmp, strays, nfail, run, done,
                    cancelled, buf, enc, werr, lin, snap, diskSnap, passes,
                    reopened >>

\* one iteration of the loop of F.Score
DBScoreStep(p) ==
    /\ cl[p].pc = "sread"
    /\ cl' = [ cl EXCEPT ![p].s = ScoreAt(@, f, cl[p].i, cl[p].w),
                         ![p].i = @ + 1,
                         ![p].pc = IF cl[p].i + 1 >= NumFuncs THEN "runlock" ELSE "sread" ]
    /\ UNCHANGED << cvars, rvars, xvars, f, nops, fvars, dirty, mu, disk, tmp, strays, nfail, run,
                    done, cancelled, buf, enc, werr, lin, snap, diskSnap, passes,
                    reopened >>

\* the deferred d.mu.RUnlock(); Score returns s
DBRUnlock(p) ==
    /\ cl[p].pc = "runlock"
    /\ mu' = [ mu EXCEPT !.r = @ \ {p} ]
    /\ cl' = [ cl EXCEPT ![p].pc = "scored" ]
    /\ UNCHANGED << cvars, rvars, xvars, f, nops, fvars, dirty, disk, tmp, strays, nfail, run, done,
                    cancelled, buf, enc, werr, lin, snap, diskSnap, passes,
                    reopened >>

\* the owner cancels the context, after the callers' calls have returned
Cancel ==
    /\ ~cancelled
    /\ \A p \in Procs : cl[p].pc \in { "idle", "scored" }
    /\ cancelled' = TRUE
    /\ UNCHANGED << cvars, rvars, xvars, f, nops, fvars, dirty, mu, disk, tmp, strays, nfail, run,
                    done, buf, enc, werr, cl, lin, snap, diskSnap, passes,
                    reopened >>

\* select: case <-tick.C
RunSelectTick ==
    /\ run = "select"
    /\ run' = "check"
    /\ UNCHANGED << cvars, rvars, xvars, RunUnchanged, dirty, mu, disk, tmp, strays, nfail, done,
                    cancelled, buf, enc, werr, snap, diskSnap, passes >>

\* select: case <-ctx.Done(): done = true
RunSelectDone ==
    /\ run = "select"
    /\ cancelled
    /\ done' = TRUE
    /\ run' = "check"
    /\ UNCHANGED << cvars, rvars, xvars, RunUnchanged, dirty, mu, disk, tmp, strays, nfail,
                    cancelled, buf, enc, werr, snap, diskSnap, passes >>

\* if !d.dirty { continue }
RunCheck ==
    /\ run = "check"
    /\ run' = IF dirty THEN "create" ELSE LoopNext
    /\ UNCHANGED << cvars, rvars, xvars, RunUnchanged, dirty, mu, disk, tmp, strays, nfail, done,
                    cancelled, buf, enc, werr, snap, diskSnap, passes >>

\* a slip: the pass writes after what root/name holds already
TempFileOnTarget == IF disk.exists THEN disk ELSE FileOf(<< >>)

\* ioutil.TempFile(d.root, "*"): a new, empty file
TempFile == FileOf(<< >>)

\* persist: ioutil.TempFile(d.root, "*") succeeds
RunCreate ==
    /\ run = "create"
    /\ tmp' = TempFile
    /\ run' = "rlock"
    /\ UNCHANGED << cvars, rvars, xvars, RunUnchanged, dirty, mu, disk, strays, nfail, done,
                    cancelled, buf, enc, werr, snap, diskSnap, passes >>

\* persist: ioutil.TempFile fails; persist returns the error
RunCreateFail ==
    /\ run = "create"
    /\ nfail < MaxFail
    /\ nfail' = nfail + 1
    /\ run' = "failed"
    /\ UNCHANGED << cvars, rvars, xvars, RunUnchanged, dirty, mu, disk, tmp, strays, done,
                    cancelled, buf, enc, werr, snap, diskSnap, passes >>

\* persist: d.mu.RLock()
RunRLock ==
    /\ run = "rlock"
    /\ CanRLock(mu)
    /\ mu' = [ mu EXCEPT !.r = @ \cup {"run"} ]
    /\ snap' = lin
    /\ buf' = << >>
    /\ enc' = 0
    /\ run' = "encode"
    /\ UNCHANGED << cvars, rvars, xvars, RunUnchanged, dirty, disk, tmp, strays, nfail, done,
                    cancelled, werr, diskSnap, passes >>

\* persist: binary.Write encodes the next row of the grid
RunEncode ==
    /\ run = "encode"
    /\ buf' = buf \o EncodeRow(f[enc])
    /\ enc' = enc + 1
    /\ run' = IF enc + 1 >= NumFuncs THEN "write" ELSE "encode"
    /\ UNCHANGED << cvars, rvars, xvars, RunUnchanged, dirty, mu, disk, tmp, strays, nfail, done,
                    cancelled, werr, snap, diskSnap, passes >>

\* persist: binary.Write writes the encoded bytes to the temporary file
RunWrite ==
    /\ run = "write"
    /\ tmp' = FileOf(tmp.data \o buf)
    /\ werr' = FALSE
    /\ run' = "runlock"
    /\ UNCHANGED << cvars, rvars, xvars, RunUnchanged, dirty, mu, disk, strays, nfail, done,
                    cancelled, buf, enc, snap, diskSnap, passes >>

\* persist: the write fails after n bytes
RunWriteFail ==
    /\ run = "write"
    /\ nfail < MaxFail
    /\ nfail' = nfail + 1
    /\ \E n \in PartialLens : tmp' = FileOf(tmp.data \o SubSeq(buf, 1, n))
    /\ werr' = TRUE
    /\ run' = "runlock"
    /\ UNCHANGED << cvars, rvars, xvars, RunUnchanged, dirty, mu, disk, strays, done,
                    cancelled, buf, enc, snap, diskSnap, passes >>

\* persist: d.mu.RUnlock(), on both paths; after an error persist returns it
RunRUnlock ==
    /\ run = "runlock"
    /\ mu' = [ mu EXCEPT !.r = @ \ {"run"} ]
    /\ run' = IF werr THEN AfterWriteError ELSE "rename"
    /\ werr' = FALSE
    /\ UNCHANGED << cvars, rvars, xvars, RunUnchanged, dirty, disk, tmp, strays, nfail, done,
                    cancelled, buf, enc, snap, diskSnap, passes >>

\* persist: os.Rename(f.Name(), root/name) succeeds
RunRename ==
    /\ run = "rename"
    /\ disk' = tmp
    /\ tmp' = NoFile
    /\ diskSnap' = snap
    /\ passes' = IF passes = "none" \/ snap # diskSnap THEN "other"
                  ELSE IF tmp = disk THEN "same" ELSE "differs"
    /\ run' = "clear"
    /\ UNCHANGED << cvars, rvars, xvars, RunUnchanged, dirty, mu, strays, nfail, done,
                    cancelled, buf, enc, werr, snap >>

\* persist: os.Rename fails; persist returns the error
RunRenameFail ==
    /\ run = "rename"
    /\ nfail < MaxFail
    /\ nfail' = nfail + 1
    /\ run' = AfterRenameError
    /\ UNCHANGED << cvars, rvars, xvars, RunUnchanged, dirty, mu, disk, tmp, strays, done,
                    cancelled, buf, enc, werr, snap, diskSnap, passes >>

\* log.Println("failed to persist:", err); continue.  The temporary file of
\* the failed pass, if it was created, stays in root.
RunFailed ==
    /\ run = "failed"
    /\ strays' = IF tmp.exists THEN strays + 1 ELSE strays
    /\ tmp' = NoFile
    /\ run' = LoopNext
    /\ UNCHANGED << cvars, rvars, xvars, RunUnchanged, dirty, mu, disk, nfail, done,
                    cancelled, buf, enc, werr, snap, diskSnap, passes >>

\* d.dirty = false
RunClear ==
    /\ run = "clear"
    /\ dirty' = FALSE
    /\ run' = LoopNext
    /\ UNCHANGED << cvars, rvars, xvars, RunUnchanged, mu, disk, tmp, strays, nfail, done,
                    cancelled, buf, enc, werr, snap, diskSnap, passes >>

\* NewDB(root, name) on the file as it is
Open ==
    /\ ~reopened.opened
    /\ reopened' = Opened(NewDB(disk))
    /\ UNCHANGED << cvars, rvars, xvars, f, nops, fvars, dbvars, disk >>

\* after Run has returned, the next process constructs the store again
Reopen ==
    /\ run = "returned"
    /\ Open

NextDB ==
    \/ \E p \in Procs, w \in DBWindows, d \in DBAddDeltas : ClientCall(p, "add", w, d)
    \/ \E p \in Procs, w \in DBWindows, d \in DBDeltas : ClientCall(p, "remove", w, d)
    \/ \E p \in Procs, w \in DBWindows : ClientCall(p, "score", w, 0)
    \/ \E p \in Procs : DBLock(p)
    \/ \E p \in Procs : DBRemoveScore(p)
    \/ \E p \in Procs : DBStep(p)
    \/ \E p \in Procs : DBSetDirty(p)
    \/ \E p \in Procs : DBUnlock(p)
    \/ \E p \in Procs : DBRLock(p)
    \/ \E p \in Procs : DBScoreStep(p)
    \/ \E p \in Procs : DBRUnlock(p)
    \/ Cancel
    \/ RunSelectTick
    \/ RunSelectDone
    \/ RunCheck
    \/ RunCreate
    \/ RunCreateFail
    \/ RunRLock
    \/ RunEncode
    \/ RunWrite
    \/ RunWriteFail
    \/ RunRUnlock
    \/ RunRename
    \/ RunRenameFail
    \/ RunFailed
    \/ RunClear
    \/ Reopen

SpecDB == InitDB /\ [][NextDB]_vars

\* ------------------------------------------------------------- NewDB alone
\* the files NewDB may find at root/name: blobs of small grids, cut short at
\* any length or one byte too long, readable or not; or no file
OpenGrids == { FAdd(ZeroField, w, d) : w \in Windows, d \in Deltas }

OpenContents ==
    { SubSeq(Serialize(g), 1, n) : g \in OpenGrids, n \in 0 .. BlobLen }
        \cup { Serialize(g) \o << 0 >> : g \in OpenGrids }

OpenFiles ==
    { NoFile } \cup
    { [ exists |-> TRUE, readable |-> r, data |-> c ] :
          r \in BOOLEAN, c \in OpenContents }

InitOpen ==
    /\ disk \in OpenFiles
    /\ f = ZeroField
    /\ nops = 0
    /\ FIdle
    /\ XIdle
    /\ DBIdle(ZeroField)
    /\ reopened = NotOpened
    /\ CIdle(0)
    /\ RIdle

NextOpen == Open

SpecOpen == InitOpen /\ [][NextOpen]_vars

\* ------------------------------------------------------------- claims on the store

\* C1: once Run has returned after cancellation, and no persist pass has
\* failed, the blob at root/name is the serialization of the in-memory filter
\* (no file only if the filter is still all-zero).
C1_ShutdownDurable ==
    (run = "returned" /\ nfail = 0)
        => IF disk.exists THEN disk.data = Serialize(f) ELSE f = ZeroField

\* C5: NewDB on the file left by a successful persist pass returns, without
\* error, a filter whose every counter is the persisted filter's.
C5_RoundTrip ==
    (reopened.opened /\ disk.exists)
        => (~reopened.err /\ reopened.loaded /\ reopened.f = diskSnap
            /\ \A w \in Windows : FScore(reopened.f, w) = FScore(diskSnap, w))

\* the store was reopened from a blob that a persist pass of this run wrote
C5_Witness ==
    /\ reopened.opened
    /\ reopened.loaded
    /\ reopened.f = FAdd(ZeroField, <<115, 112, 97, 109>>, 2)

\* C6: Add and Remove take effect whole, in the order the exclusive lock was
\* granted: whenever no writer holds the lock the grid is the result of
\* applying the calls one after another in that order, and a Score returns
\* the minimum over the state that order had produced when it took its lock.
C6_Linearizable ==
    /\ (mu.w = "none") => (f = lin)
    /\ \A p \in Procs : (cl[p].pc \in { "runlock", "scored" }) => (cl[p].s = cl[p].exp)

\* a writer is in the middle of its K updates while another call waits
C6_Witness ==
    \E p \in Procs, q \in Procs :
        /\ cl[p].pc = "body"
        /\ cl[p].i > 0
        /\ cl[q].pc = "lock"

\* C7: the bytes a persist pass encodes, and writes to its temporary file,
\* are the whole grid at one instant between calls: each Add/Remove is in
\* them with all K updates or with none.
C7_SnapshotWhole ==
    /\ (run \in { "write", "runlock", "rename" }) => (buf = Serialize(snap))
    /\ (run = "rename") => (tmp.data = Serialize(snap))

\* the pass has encoded the grid while an Add waits for the lock
C7_Witness ==
    /\ run = "write"
    /\ \E p \in Procs : cl[p].pc = "lock" /\ cl[p].op = "add"
    /\ snap # ZeroField

\* C8: the file root/name is absent or the complete blob of one successful
\* persist pass, at every moment.
C8_TargetComplete ==
    disk.exists => (Len(disk.data) = BlobLen /\ disk.data = Serialize(diskSnap))

\* a pass has failed leaving a partly written temporary file, and root/name
\* is there
C8_Witness ==
    /\ run = "failed"
    /\ tmp.exists
    /\ Len(tmp.data) < BlobLen
    /\ disk.exists

\* C9: NewDB returns a fresh empty store without error only when root/name
\* does not exist, and an error when the file exists but cannot be opened or
\* is short.
C9_OpenErrors ==
    reopened.opened =>
        /\ (~reopened.err /\ ~reopened.loaded) => ~disk.exists
        /\ (disk.exists /\ (~disk.readable \/ Len(disk.data) < BlobLen)) => reopened.err

\* the steps of a persist pass
PassSteps == { "create", "rlock", "encode", "write", "runlock", "rename" }

\* C10: a persist pass that fails leaves dirty set and root/name as it was;
\* dirty goes from set to clear only after a rename that succeeded.
C10_DirtyClearedAfterRename ==
    [][ /\ (run \in PassSteps /\ run' = "failed") => (dirty' /\ disk' = disk)
        /\ (run \in PassSteps /\ run' # "clear") => (disk' = disk)
        /\ (run = "failed") => (dirty /\ dirty' /\ disk' = disk)
        /\ (dirty /\ ~dirty') => (run = "clear" /\ ~tmp.exists /\ disk = FileOf(buf))
      ]_vars

\* a pass has failed while the store is dirty
C10_Witness ==
    /\ run = "failed"
    /\ nfail > 0
    /\ dirty

\* ------------------------------------------------------------- Run, scheduled
\* The steps of Run that do not fail, the one step that observes ctx.Done(),
\* and the steps of the callers.  The Go scheduler runs every goroutine that
\* can run; select picks at random among its ready cases, so a case that is
\* ready again and again is taken in the end.
RunProgress ==
    \/ RunSelectTick
    \/ RunCheck
    \/ RunCreate
    \/ RunRLock
    \/ RunEncode
    \/ RunWrite
    \/ RunRUnlock
    \/ RunRename
    \/ RunFailed
    \/ RunClear

ClientProgress ==
    \E p \in Procs :
        \/ DBLock(p)
        \/ DBRemoveScore(p)
        \/ DBStep(p)
        \/ DBSetDirty(p)
        \/ DBUnlock(p)
        \/ DBRLock(p)
        \/ DBScoreStep(p)
        \/ DBRUnlock(p)

SpecDBLive ==
    /\ InitDB
    /\ [][NextDB]_vars
    /\ WF_vars(RunProgress)
    /\ SF_vars(RunSelectDone)
    /\ WF_vars(ClientProgress)

\* the disk copy is the in-memory filter (no file only for the all-zero filter)
Durable == IF disk.exists THEN disk.data = Serialize(f) ELSE f = ZeroField

\* C11: Run keeps running after a failed persist pass and tries again on the
\* next tick while the store is dirty; so, in a run whose context is never
\* cancelled, once the calls have stopped and persist succeeds, the disk copy
\* equals the in-memory filter from some moment on.
C11_EventuallyDurable ==
    (<>[](~cancelled)) => <>[]Durable

\* C12: while persist is writing the encoded filter to its temporary file, a
\* caller of Add or Remove that asks for the exclusive lock is granted it.
C12_WriterNotBlockedByWrite ==
    \A p \in Procs :
        (run = "write" /\ cl[p].pc = "lock" /\ cl[p].op \in { "add", "remove" })
            => CanLock(mu)

\* C13: once the context is cancelled Run returns in the end; after it has
\* observed the cancellation it never waits for a tick again, starts a
\* persist pass only from its one check of dirty, skips the pass when the
\* store is clean, and returns after the pass whether it failed or not.
C13_ReturnsAfterCancel ==
    /\ [][ done =>
             /\ run' # "select"
             /\ (run' = "create") => (run = "check" /\ dirty)
             /\ (run = "check" /\ ~dirty) => (run' = "returned")
             /\ (run \in { "failed", "clear" }) => (run' = "returned")
             /\ (run = "returned") => (run' = "returned")
         ]_vars
    /\ (cancelled ~> (run = "returned"))

\* Run has returned after a final pass that failed
C13_Witness ==
    /\ run = "returned"
    /\ done
    /\ nfail > 0
    /\ dirty

\* ------------------------------------------------------------- the classifier
\* Train and Classify run on one goroutine per call; a step is one pass of
\* the call's loop over Reader.Next.  The two stores are taken as their
\* filters: DB.Add and DB.Score act on the filter whole, under the lock.
MaxCCalls == 2
ScriptLen == 6

\* the thresholds given to main and to New: 0.3, 0.5, 0.7
Thresholds == { 3 * (Scale \div 10), 5 * (Scale \div 10), 7 * (Scale \div 10) }

\* the learn factors and the streams of the callers
Factors == { 1, 2 }

Streams ==
    { StreamOf(ch, end) :
          ch \in { << >>, << TextFoo >>, << TextBarfoo >>, << TextFoobarb >>,
                   << TextFooNlBar >>, << TextFoo, TextBar >> },
          end \in { "eof", "err" } }

\* the end-to-end runs: whole short texts, learn factor 1
ScriptStreams ==
    { StreamOf(ch, "eof") : ch \in { << TextFoo >>, << TextBar >>, << TextFoobar >> } }

InitC ==
    /\ f = ZeroField
    /\ nops = 0
    /\ FIdle
    /\ XIdle
    /\ DBIdle(ZeroField)
    /\ disk = NoFile
    /\ reopened = NotOpened
    /\ CIdle(MaxCCalls)
    /\ RIdle

InitE2E ==
    /\ f = ZeroField
    /\ nops = 0
    /\ FIdle
    /\ XIdle
    /\ DBIdle(ZeroField)
    /\ disk = NoFile
    /\ reopened = NotOpened
    /\ CIdle(ScriptLen)
    /\ RIdle

COther == << f, nops, fvars, dbvars, disk, reopened, rvars, kvars, ivars >>

\* main: the flags are checked, then classifier.New is called
MainStart(tUnsure, tSpam) ==
    /\ clf.by = "none"
    /\ ~exited
    /\ IF Misordered(tUnsure, tSpam)
       THEN exited' = TRUE /\ clf' = clf
       ELSE exited' = FALSE /\ clf' = New("main", tUnsure, tSpam)
    /\ UNCHANGED << COther, hvars, dbTotal, dbSpam, call, rd, eta, etaMin, etaMax, result,
                    sink, cdirty, emitted, adds, preTotal, preSpam, trained, trains, offScript, left >>

\* any other caller of the package calls classifier.New
CallerNew(tUnsure, tSpam) ==
    /\ clf.by = "none"
    /\ ~exited
    /\ clf' = New("caller", tUnsure, tSpam)
    /\ UNCHANGED << COther, hvars, exited, dbTotal, dbSpam, call, rd, eta, etaMin, etaMax,
                    result, sink, cdirty, emitted, adds, preTotal, preSpam, trained, trains,
                    offScript, left >>

\* Train is entered: buf := make([]byte, windowSize); reader := ntuple.New(in)
EnterTrain(s, isSpam, factor) ==
    /\ clf.by # "none"
    /\ call.op = "none"
    /\ left > 0
    /\ left' = left - 1
    /\ call' = [ op |-> "train", stream |-> s, spam |-> isSpam, factor |-> factor,
                 verbose |-> "nil" ]
    /\ rd' = NewReader(s)
    /\ emitted' = << >>
    /\ adds' = << >>
    /\ preTotal' = dbTotal
    /\ preSpam' = dbSpam
    /\ result' = NoRes
    /\ UNCHANGED << COther, clf, exited, dbTotal, dbSpam, eta, etaMin, etaMax,
                    sink, cdirty, trained, trains, offScript >>

\* the same by a caller of the package
CallTrain(s, isSpam, factor) == EnterTrain(s, isSpam, factor) /\ UNCHANGED hvars

\* the result of a Train call
TrainResult(err) ==
    [ NoRes EXCEPT !.op = "train", !.stream = call.stream, !.spam = call.spam,
                   !.factor = call.factor, !.err = (err = "err"),
                   !.readErr = (err = "err"), !.windows = Len(emitted) ]

\* one pass of Train's loop
TrainPass ==
    /\ call.op = "train"
    /\ LET n == ReaderNext(rd)
           t == trainWord(dbTotal, dbSpam, n.d, call.spam, call.factor)
           onScript == call.factor = 1 /\ call.stream.end = "eof"
                       /\ << call.stream.chunks, call.spam >> \in DOMAIN trains
       IN  /\ rd' = n.r
           /\ IF n.err # "nil"
              THEN /\ result' = TrainResult(n.err)
                   /\ call' = NoCallC
                   /\ trains' = IF onScript
                                THEN [ trains EXCEPT ![<< call.stream.chunks, call.spam >>] = @ + 1 ]
                                ELSE trains
                   /\ offScript' = (offScript \/ ~onScript)
                   /\ dbTotal' = IF n.err = "err" THEN TrainFailed(preTotal, dbTotal)
                                                 ELSE dbTotal
                   /\ dbSpam' = IF n.err = "err" THEN TrainFailed(preSpam, dbSpam)
                                                ELSE dbSpam
                   /\ UNCHANGED << emitted, adds, trained, cdirty >>
              ELSE /\ dbTotal' = t.total
                   /\ dbSpam' = t.spam
                   /\ cdirty' =
                          [ total |-> IF \E k \in 1 .. Len(t.adds) : t.adds[k] = "total"
                                      THEN DBAddDirty(cdirty.total) ELSE cdirty.total,
                            spam |-> IF \E k \in 1 .. Len(t.adds) : t.adds[k] = "spam"
                                     THEN DBAddDirty(cdirty.spam) ELSE cdirty.spam ]
                   /\ emitted' = Append(emitted, n.d)
                   /\ adds' = adds \o [ k \in 1 .. Len(t.adds) |-> << t.adds[k], n.d, call.factor >> ]
                   /\ trained' = [ trained EXCEPT ![n.d] =
                                     [ n |-> @.n + call.factor,
                                       k |-> IF call.spam THEN @.k + call.factor ELSE @.k ] ]
                   /\ UNCHANGED << result, call, trains, offScript >>
    /\ UNCHANGED << COther, clf, exited, eta, etaMin, etaMax, sink, preTotal, preSpam,
                    left >>

\* the same on a caller's goroutine
TrainStep == TrainPass /\ UNCHANGED hvars

\* Classify is entered: eta, min and max are initialised
CallClassify(s, v) ==
    /\ clf.by # "none"
    /\ call.op = "none"
    /\ left > 0
    /\ left' = left - 1
    /\ call' = [ op |-> "classify", stream |-> s, spam |-> FALSE, factor |-> 0,
                 verbose |-> v ]
    /\ sink' = NoSink
    /\ rd' = NewReader(s)
    /\ eta' = 0
    /\ etaMin' = PosInf
    /\ etaMax' = NegInf
    /\ emitted' = << >>
    /\ adds' = << >>
    /\ preTotal' = dbTotal
    /\ preSpam' = dbSpam
    /\ result' = NoRes
    /\ UNCHANGED << COther, hvars, clf, exited, dbTotal, dbSpam, cdirty, trained, trains,
                    offScript >>

\* the Result Classify returns after its loop, always with a nil error
ClassifyResult(err) ==
    [ NoRes EXCEPT !.op = "classify", !.stream = call.stream,
                   !.err = FALSE, !.readErr = (err = "err"),
                   !.score = ScoreOf(eta),
                   !.label = LabelOf(ScoreOf(eta), clf.thresholdUnsure, clf.thresholdSpam),
                   !.eta = eta, !.min = etaMin, !.max = etaMax,
                   !.windows = Len(emitted), !.verbose = call.verbose ]

\* Classify panics
ClassifyPanic ==
    [ NoRes EXCEPT !.op = "classify", !.stream = call.stream, !.panic = TRUE,
                   !.windows = Len(emitted), !.verbose = call.verbose ]

\* the dirty flags after getWord has called Score on both stores
ScoredDirty ==
    [ total |-> DBScoreDirty(cdirty.total), spam |-> DBScoreDirty(cdirty.spam) ]

\* one pass of Classify's loop, with its line to verbose; after the loop the
\* final line is written and the result is computed
ClassifyStep ==
    /\ call.op = "classify"
    /\ LET n == ReaderNext(rd)
           word == getWord(dbTotal, dbSpam, n.d)
           p == SpamLikelihood(word)
           s == sigmoid(p)
           l1 == Log(Scale - s)
           l2 == Log(s)
           e == Decay(eta) + l1 - l2
       IN  /\ rd' = n.r
           /\ IF n.err # "nil"
              THEN /\ sink' = WriteVerbose(call.verbose, sink)
                   /\ result' = [ ClassifyResult(n.err) EXCEPT
                                     !.err = ClassifyErr(WriteVerbose(call.verbose, sink)) ]
                   /\ call' = NoCallC
                   /\ UNCHANGED << eta, etaMin, etaMax, emitted, cdirty >>
              ELSE IF SigmoidPanics(p) \/ s <= 0 \/ s >= Scale
              THEN /\ result' = ClassifyPanic
                   /\ call' = NoCallC
                   /\ cdirty' = ScoredDirty
                   /\ UNCHANGED << eta, etaMin, etaMax, emitted, sink >>
              ELSE /\ eta' = e
                   /\ cdirty' = ScoredDirty
                   /\ sink' = WriteVerbose(call.verbose, sink)
                   /\ etaMin' = MinOf(etaMin, e)
                   /\ etaMax' = MaxOf(etaMax, e)
                   /\ emitted' = Append(emitted, n.d)
                   /\ UNCHANGED << result, call >>
    /\ UNCHANGED << COther, hvars, clf, exited, dbTotal, dbSpam, adds, preTotal, preSpam,
                    trained, trains, offScript, left >>

NextC ==
    \/ \E tUnsure \in Thresholds, tSpam \in Thresholds : MainStart(tUnsure, tSpam)
    \/ \E tUnsure \in Thresholds, tSpam \in Thresholds : CallerNew(tUnsure, tSpam)
    \/ \E s \in Streams, isSpam \in BOOLEAN, factor \in Factors : CallTrain(s, isSpam, factor)
    \/ TrainStep
    \/ \E s \in Streams, v \in Verboses : CallClassify(s, v)
    \/ ClassifyStep

SpecC == InitC /\ [][NextC]_vars

NextE2E ==
    \/ \E tUnsure \in Thresholds, tSpam \in Thresholds : MainStart(tUnsure, tSpam)
    \/ \E s \in ScriptStreams, isSpam \in BOOLEAN : CallTrain(s, isSpam, 1)
    \/ TrainStep
    \/ \E s \in ScriptStreams, v \in Verboses : CallClassify(s, v)
    \/ ClassifyStep

SpecE2E == InitE2E /\ [][NextE2E]_vars

\* ------------------------------------------------------------- claims on the classifier

\* C14: when the stream returned a read error that is not end-of-input, the
\* call returns a non-nil error, and Classify returns no label.
C14_ReadErrorSurfaced ==
    result.readErr =>
        (result.err /\ (result.op = "classify" => result.label = "none"))

\* the Train call in progress, or the one that has just returned
TrainCall ==
    IF call.op = "train" THEN call
    ELSE IF call.op = "none" /\ result.op = "train" THEN result
    ELSE NoCallC

IsTotalAdd(a) == a[1] = "total"
IsSpamAdd(a) == a[1] = "spam"

\* Add(window, factor) on a store, once for each window of ws, in order
AddsFor(store, ws, factor) == [ k \in 1 .. Len(ws) |-> << store, ws[k], factor >> ]

RECURSIVE AddAll(_, _, _)
AddAll(b, ws, factor) ==
    IF ws = << >> THEN b
    ELSE AddAll(FAdd(b, Head(ws), factor), Tail(ws), factor)

\* C15: Train calls Add(window, factor) on the total store exactly once for
\* each window the reader has emitted, and on the spam store exactly once for
\* each of them if and only if isSpam; training as ham leaves every counter
\* of the spam store as it was.
C15_TrainAddsOncePerWindow ==
    (TrainCall.op = "train") =>
        /\ SelectSeq(adds, IsTotalAdd) = AddsFor("total", emitted, TrainCall.factor)
        /\ SelectSeq(adds, IsSpamAdd) =
               IF TrainCall.spam THEN AddsFor("spam", emitted, TrainCall.factor)
                                 ELSE << >>
        /\ Len(adds) = Len(SelectSeq(adds, IsTotalAdd)) + Len(SelectSeq(adds, IsSpamAdd))
        /\ dbTotal = AddAll(preTotal, emitted, TrainCall.factor)
        /\ dbSpam = IF TrainCall.spam THEN AddAll(preSpam, emitted, TrainCall.factor)
                                      ELSE preSpam

\* a text of two windows has been trained as ham
C15_Witness ==
    /\ call.op = "none"
    /\ result.op = "train"
    /\ ~result.spam
    /\ ~result.err
    /\ result.windows = 2
    /\ dbTotal # preTotal

\* C16: with thresholdUnsure < thresholdSpam the label is "ham" iff score <=
\* thresholdUnsure, "unsure" iff thresholdUnsure < score <= thresholdSpam,
\* "spam" iff score > thresholdSpam: exactly one of the three, and a score
\* equal to a threshold takes the lower label.
C16_LabelFromScore ==
    (result.op = "classify" /\ ~result.panic
        /\ clf.thresholdUnsure < clf.thresholdSpam) =>
        /\ result.label \in { "ham", "unsure", "spam" }
        /\ (result.label = "ham") <=> (result.score <= clf.thresholdUnsure)
        /\ (result.label = "unsure") <=>
               (clf.thresholdUnsure < result.score /\ result.score <= clf.thresholdSpam)
        /\ (result.label = "spam") <=> (result.score > clf.thresholdSpam)

\* a score equal to thresholdSpam has been labelled
C16_Witness ==
    /\ result.op = "classify"
    /\ clf.thresholdUnsure < clf.thresholdSpam
    /\ result.score = clf.thresholdSpam
    /\ result.label = "unsure"

\* the thresholds of the classifier are in order
Ordered == clf.thresholdUnsure < clf.thresholdSpam

\* C17 (as stated): no Classifier is constructed with thresholdUnsure >=
\* thresholdSpam, and no Classify call runs with such thresholds.
C17_ConstructionChecksThresholds ==
    /\ (clf.by # "none") => Ordered
    /\ (call.op = "classify") => Ordered

\* C17 (amended): main exits before it constructs the Classifier when
\* thresholdUnsure >= thresholdSpam, so the classifier main constructs has
\* its thresholds in order and no call runs after main has exited.
C17_MainChecksThresholds ==
    /\ (clf.by = "main") => Ordered
    /\ exited => (clf.by = "none" /\ call.op = "none" /\ result.op = "none")

\* main has been given misordered thresholds and has exited
C17_Witness ==
    /\ exited
    /\ clf.by = "none"

\* the sum of the factors trained for the windows of S
RECURSIVE SumTrained(_)
SumTrained(S) ==
    IF S = {} THEN 0
    ELSE LET v == CHOOSE x \in S : TRUE
         IN  trained[v].n + SumTrained(S \ {v})

\* no counter of w has left its range
InRange(w) ==
    \A i \in Funcs :
        SumTrained({ v \in DocWindows : H(i, v) = H(i, w) }) < CounterMod

\* some counter of w is shared with no other trained window
Uncollided(w) ==
    \E i \in Funcs :
        \A v \in DocWindows \ {w} : trained[v].n > 0 => H(i, v) # H(i, w)

\* C18: SpamLikelihood is 0.5 when Total = 0 and Spam / Total when Total > 0
\* and Spam <= Total; so for a window trained with factors n in all, k of
\* them as spam, without collision and within the counters' range,
\* getWord(window).SpamLikelihood() is k / n.
C18_SpamLikelihood ==
    \A w \in DocWindows :
        LET word == getWord(dbTotal, dbSpam, w)
        IN  /\ (word.Total = 0) => (SpamLikelihood(word) = Scale \div 2)
            /\ (word.Total > 0 /\ word.Spam <= word.Total)
                   => (SpamLikelihood(word) = (word.Spam * Scale) \div word.Total)
            /\ (trained[w].n > 0 /\ Uncollided(w) /\ InRange(w))
                   => /\ word.Total = trained[w].n
                      /\ word.Spam = trained[w].k
                      /\ SpamLikelihood(word) = (trained[w].k * Scale) \div trained[w].n

\* a window has been trained with factor 3 in all, 2 of it as spam
C18_Witness ==
    \E w \in DocWindows :
        /\ call.op = "none"
        /\ trained[w].n = 3
        /\ trained[w].k = 2
        /\ Uncollided(w)
        /\ InRange(w)
        /\ SpamLikelihood(getWord(dbTotal, dbSpam, w)) = (2 * Scale) \div 3

\* every window the call has been given so far has a zero Total estimate
AllUnseen == \A k \in 1 .. Len(emitted) : FScore(dbTotal, emitted[k]) = 0

Script ==
    /\ ~offScript
    /\ trains = [ x \in ScriptKinds |->
                    IF x = << << TextFoo >>, FALSE >> \/ x = << << TextBar >>, TRUE >>
                    THEN 2 ELSE 0 ]

\* 1e-4
Epsilon == Scale \div (10 ^ 4)

\* C20 (as stated): after that training Classify("foo") returns a score
\* within 1e-4 of 0 and label "ham", Classify("bar") a score within 1e-4 of 1
\* and label "spam".
C20_WordsLearned ==
    (Script /\ call.op = "none" /\ result.op = "classify") =>
        /\ (result.stream.chunks = << TextFoo >>)
               => (result.score <= Epsilon /\ result.label = "ham")
        /\ (result.stream.chunks = << TextBar >>)
               => (result.score >= Scale - Epsilon /\ result.label = "spam")

\* C20 (amended): after that training both stores are still all-zero, and
\* Classify("foo") and Classify("bar") get no window and return score 0.5,
\* with label "unsure" when thresholdUnsure < 0.5 <= thresholdSpam.
C20_ShortWordsUnseen ==
    (Script /\ call.op = "none" /\ result.op = "classify"
        /\ result.stream.chunks \in { << TextFoo >>, << TextBar >> }) =>
        /\ dbTotal = ZeroField
        /\ dbSpam = ZeroField
        /\ result.windows = 0
        /\ result.score = Scale \div 2
        /\ (clf.thresholdUnsure < Scale \div 2 /\ Scale \div 2 <= clf.thresholdSpam)
               => (result.label = "unsure")

\* "bar" has been classified after that training
C20_Witness ==
    /\ Script
    /\ call.op = "none"
    /\ result.op = "classify"
    /\ result.stream.chunks = << TextBar >>
    /\ result.label = "unsure"

\* ------------------------------------------------------------- the reader alone
\* One Reader on one stream; the caller calls Next with a buffer of winLen
\* bytes until Next returns an error, as Train, Classify and the tests do.
MaxRead == 3

\* a letter, another letter, and NUL, which Next skips windows for
Alphabet == { 97, 98, 0 }

\* what one Read call delivers: 1 to MaxRead bytes
ReadChunks == UNION { [ 1 .. k -> Alphabet ] : k \in 1 .. MaxRead }

\* the streams: no, one or two Read calls deliver bytes, then the stream ends
ReadStreams ==
    { StreamOf(ch, end) :
          ch \in { << >> } \cup { << a >> : a \in ReadChunks }
                 \cup { << a, b >> : a, b \in ReadChunks },
          end \in { "eof", "err" } }

WinLens == 1 .. MaxRead

InitR ==
    /\ f = ZeroField
    /\ nops = 0
    /\ FIdle
    /\ XIdle
    /\ DBIdle(ZeroField)
    /\ disk = NoFile
    /\ reopened = NotOpened
    /\ CIdle(0)
    /\ src \in ReadStreams
    /\ winLen \in WinLens
    /\ reader = NewReader(src)
    /\ got = << >>
    /\ nextErr = "none"

\* the caller calls r.Next(d)
CallNext ==
    /\ nextErr \in { "none", "nil" }
    /\ LET n == NextLen(reader, winLen)
       IN  /\ reader' = n.r
           /\ nextErr' = n.err
           /\ got' = IF n.err = "nil" THEN Append(got, n.d) ELSE got
    /\ UNCHANGED << f, nops, fvars, dbvars, disk, reopened, cvars, xvars, src, winLen >>

NextR == CallNext

SpecR == InitR /\ [][NextR]_vars

\* ------------------------------------------------------------- claims on the reader
RECURSIVE Concat(_)
Concat(chunks) == IF chunks = << >> THEN << >> ELSE Head(chunks) \o Concat(Tail(chunks))

\* the input byte sequence: all the stream delivers, in order
Input == Concat(src.chunks)

Clean(s) == \A k \in 1 .. Len(s) : ~IsControl(s[k])

\* the substrings of s of n bytes, in increasing start offset
Substrings(s, n) == [ k \in 1 .. (Len(s) - n + 1) |-> SubSeq(s, k, k + n - 1) ]

\* those of them that are free of disallowed bytes
CleanSubstrings(s, n) == SelectSeq(Substrings(s, n), Clean)

IsPrefix(a, b) == Len(a) <= Len(b) /\ SubSeq(b, 1, Len(a)) = a

\* the bytes of the stream no window has been cut from and Next has not
\* scanned: the rest of the read-ahead buffer and what Read has yet to deliver
Unconsumed == Len(reader.buf) + Len(Concat(reader.in.chunks))

\* C22: for an input of n bytes with no disallowed byte, every window length L
\* and every split of the input across Read calls, the Next calls return the
\* n-L+1 windows input[i..i+L) in order and then io.EOF.
C22_AllWindows ==
    (Clean(Input) /\ src.end = "eof") =>
        /\ nextErr # "err"
        /\ IsPrefix(got, Substrings(Input, winLen))
        /\ nextErr = "eof" => Len(got) = Len(Substrings(Input, winLen))

\* C23: no window returned contains a disallowed byte, and for an input with
\* disallowed bytes the windows returned up to io.EOF are exactly the L-byte
\* substrings free of them, in increasing start offset.
C23_CleanWindows ==
    /\ \A k \in 1 .. Len(got) : Clean(got[k])
    /\ (~Clean(Input) /\ src.end = "eof" /\ nextErr = "eof") =>
           got = CleanSubstrings(Input, winLen)

\* C24: Next returns io.EOF only when fewer than L bytes of the stream remain
\* unconsumed, and an error that is not io.EOF exactly when Read failed with
\* one.
C24_EOFOnlyAtEnd ==
    /\ nextErr = "eof" => Unconsumed < winLen
    /\ nextErr = "err" <=> (src.end = "err" /\ reader.in.chunks = << >>
                               /\ reader.buf = ZeroBuf)

\* Classify with no verbose writer, computed from the reader on: one pass of
\* the loop after the other, then the result
RECURSIVE ClassifyQuiet(_, _, _, _, _, _, _)
ClassifyQuiet(c, total, spam, r, e, mn, mx) ==
    LET n == ReaderNext(r)
        p == SpamLikelihood(getWord(total, spam, n.d))
        s == sigmoid(p)
        e2 == Decay(e) + Log(Scale - s) - Log(s)
    IN  IF n.err # "nil"
        THEN [ panic |-> FALSE, err |-> FALSE, score |-> ScoreOf(e),
               label |-> LabelOf(ScoreOf(e), c.thresholdUnsure, c.thresholdSpam),
               eta |-> e, min |-> mn, max |-> mx ]
        ELSE IF SigmoidPanics(p) \/ s <= 0 \/ s >= Scale
        THEN [ panic |-> TRUE, err |-> FALSE, score |-> 0, label |-> "none",
               eta |-> 0, min |-> PosInf, max |-> NegInf ]
        ELSE ClassifyQuiet(c, total, spam, n.r, e2, MinOf(mn, e2), MaxOf(mx, e2))

\* the Result and the error of the latest call, as ClassifyQuiet gives them
Returned ==
    [ panic |-> result.panic, err |-> result.err, score |-> result.score,
      label |-> result.label, eta |-> result.eta, min |-> result.min,
      max |-> result.max ]

\* C21: for the same document and the same store contents Classify returns the
\* same Result (label, score, eta, min, max) and the same error whether verbose
\* is nil, a writer, or a writer whose writes fail: what it returns is what
\* the call without a verbose writer returns.
C21_VerboseIndependent ==
    result.op = "classify" =>
        Returned = ClassifyQuiet(clf, dbTotal, dbSpam, NewReader(result.stream),
                                 0, PosInf, NegInf)

\* a Classify call whose verbose writes all failed has returned, its document
\* having windows of trained text
C21_Witness ==
    /\ result.op = "classify"
    /\ result.verbose = "failing"
    /\ result.windows > 0
    /\ sink.errs = result.windows + 1
    /\ result.score # Scale \div 2
    /\ ~result.err

\* ------------------------------------------------------------- claims on the store, continued

AtRest == run \in { "select", "check", "returned" } /\ mu = FreeMu

\* C27: in every state in which no persist pass is in progress, dirty = false
\* implies that the blob at root/name is the serialization of the filter in
\* memory, or that there is no blob and the filter is all-zero.
C27_CleanMeansPersisted ==
    (AtRest /\ ~dirty) => Durable

\* ------------------------------------------------------------- claims on the filter, continued
MinOf2(a, b) == IF a < b THEN a ELSE b

\* C28: if Score(w) = s > 0 before Remove(w, d), then afterwards each of w's K
\* counters is lower by exactly min(d, s), no projection being skipped, so
\* Score(w) = s - min(d, s); no counter has gone up, that is, wrapped below 0.
C28_RemoveLowersEach ==
    (last[1] = "remove" /\ FScore(pre, last[2]) > 0) =>
        LET w == last[2]
            s == FScore(pre, w)
            m == MinOf2(last[3], s)
        IN  /\ \A i \in Funcs : f[i][H(i, w)] = pre[i][H(i, w)] - m
            /\ FScore(f, w) = s - m
            /\ \A i \in Funcs, j \in Slots : f[i][j] <= pre[i][j]

\* a Remove of more than the score, on a window one of whose counters another
\* window had raised above the score
C28_Witness ==
    /\ last[1] = "remove"
    /\ FScore(pre, last[2]) > 0
    /\ last[3] > FScore(pre, last[2])
    /\ \E i \in Funcs : pre[i][H(i, last[2])] > FScore(pre, last[2])
    /\ FScore(f, last[2]) = 0
    /\ ~wrapped

\* C29: Remove(w, d) on a filter in which Score(w) = 0 changes no counter,
\* for every d, also when some of w's counters are non-zero.
C29_RemoveUnseenNoChange ==
    (last[1] = "remove" /\ FScore(pre, last[2]) = 0) => f = pre

\* a Remove of a positive amount on a window of score 0 one of whose counters
\* is non-zero
C29_Witness ==
    /\ last[1] = "remove"
    /\ last[3] > 0
    /\ FScore(pre, last[2]) = 0
    /\ \E i \in Funcs : pre[i][H(i, last[2])] >= last[3]
    /\ f = pre

\* C30: Add(w, d) adds d, in uint64 arithmetic, to exactly the K counters
\* Field[i][hash(i, w)] and leaves every other counter as it was; Score
\* changes no counter.
C30_AddFrame ==
    /\ last[1] = "add" =>
           \A i \in Funcs, j \in Slots :
               f[i][j] = IF j = H(i, last[2])
                         THEN (pre[i][j] + last[3]) % CounterMod
                         ELSE pre[i][j]
    /\ last[1] = "score" => f = pre

\* an Add of a positive amount on a grid with other counters set, after a
\* Score call that returned a positive score
C30_Witness ==
    /\ last[1] = "add"
    /\ last[3] > 0
    /\ prev[1] = "score"
    /\ prev[3] > 0
    /\ \E i \in Funcs, j \in Slots : j # H(i, last[2]) /\ pre[i][j] > 0
    /\ \A i \in Funcs : f[i][H(i, last[2])] = pre[i][H(i, last[2])] + last[3]

\* ------------------------------------------------------------- the classifier on any stores
\* main opens the two stores from whatever blobs its data directory holds and
\* serves one Classify call; the grids of the two files are independent, so
\* the spam store may hold more of a window than the total store.
LongChunks == 70

\* a long document: LongChunks reads of a full buffer of "a"
LongStream == StreamOf([ k \in 1 .. LongChunks |-> TextAs ], "eof")

StoreWindows == { TextFoobar, SubSeq(TextAs, 1, WindowSize) }

\* the grids of the blobs: empty, or one window with count 1 or 2
StoreGrids ==
    { ZeroField } \cup { FAdd(ZeroField, w, d) : w \in StoreWindows, d \in { 1, 2 } }

StoreStreams == Streams \cup { LongStream }

InitStores ==
    /\ f = ZeroField
    /\ nops = 0
    /\ FIdle
    /\ XIdle
    /\ DBIdle(ZeroField)
    /\ disk = NoFile
    /\ reopened = NotOpened
    /\ \E total \in StoreGrids, spam \in StoreGrids : CStart(total, spam, 1)
    /\ RIdle

NextStores ==
    \/ \E tUnsure \in Thresholds, tSpam \in Thresholds : MainStart(tUnsure, tSpam)
    \/ \E s \in StoreStreams : CallClassify(s, "nil")
    \/ ClassifyStep

SpecStores == InitStores /\ [][NextStores]_vars

\* 2.5 / (1 - 0.975)
EtaBound == (((25 * Scale) \div 10) * 1000) \div (1000 - 975)

Abs(x) == IF x < 0 THEN -x ELSE x

\* the likelihood of window w on the stores as they are
LikelihoodOf(w) == SpamLikelihood(getWord(dbTotal, dbSpam, w))

\* C26: for every store content, also when the spam estimate of a window is
\* above its total estimate, and every document, Classify does not panic: the
\* likelihood given to sigmoid lies in [0, 1], a ratio out of that range being
\* replaced by 0.5; the sigmoid lies strictly between 0 and 1, so both
\* logarithms are finite; |eta| <= 2.5 / (1 - 0.975) = 100; the score
\* returned lies in [0, 1].
C26_ClassifyNeverPanics ==
    /\ ~result.panic
    /\ \A w \in DocWindows :
           /\ LikelihoodOf(w) >= 0 /\ LikelihoodOf(w) <= Scale
           /\ FScore(dbSpam, w) > FScore(dbTotal, w) => LikelihoodOf(w) = Scale \div 2
           /\ sigmoid(LikelihoodOf(w)) > 0 /\ sigmoid(LikelihoodOf(w)) < Scale
    /\ Abs(eta) <= EtaBound
    /\ result.op = "classify" =>
           /\ Abs(result.eta) <= EtaBound
           /\ result.score >= 0 /\ result.score <= Scale

\* a Classify call has returned on a document all of whose windows have a
\* spam estimate above a total estimate that is not 0
C26_Witness ==
    /\ result.op = "classify"
    /\ ~result.panic
    /\ result.windows > 0
    /\ \A k \in 1 .. Len(emitted) :
           /\ FScore(dbTotal, emitted[k]) > 0
           /\ FScore(dbSpam, emitted[k]) > FScore(dbTotal, emitted[k])
    /\ result.score = Scale \div 2

\* C38: every temporary file a persist pass created is, when the pass ends,
\* renamed onto root/name or removed: no pass leaves a file behind in root.
C38_NoStrayFile ==
    strays = 0

\* a projection of w that no other window of non-zero count shares
Unshared(w) ==
    \E i \in Funcs :
        \A v \in Windows \ {w} : (ref[v] # 0 \/ net[v] # 0) => H(i, v) # H(i, w)

\* C32: when no Remove(w, d) asked for more than w's exact count and some
\* projection of w is shared with no other window of non-zero count, Score(w)
\* is the count the reference map (testDB) holds for w.
C32_ScoreIsExact ==
    \A w \in Windows :
        (~overRemoved /\ Unshared(w)) => FScore(f, w) = TestDBScore(ref, w)

\* the same without a wrapped counter
C32_ScoreIsExactNoWrap ==
    \A w \in Windows :
        (~wrapped /\ ~overRemoved /\ Unshared(w))
            => FScore(f, w) = TestDBScore(ref, w)

\* ------------------------------------------------------------- claims on training, continued
\* C34: after completed Train calls on two empty stores, with no counter out
\* of its range, every counter of the spam store is at most the counter at
\* the same place of the total store, and so Score_spam(w) <= Score_total(w)
\* for every window.
C34_SpamAtMostTotal ==
    (call.op = "none" /\ \A w \in DocWindows : InRange(w)) =>
        /\ \A i \in Funcs, j \in Slots : dbSpam[i][j] <= dbTotal[i][j]
        /\ \A w \in DocWindows \cup Windows : FScore(dbSpam, w) <= FScore(dbTotal, w)

\* a spam text and a ham text have been trained, within the counters' range
C34_Witness ==
    /\ call.op = "none"
    /\ result.op = "train"
    /\ \A w \in DocWindows : InRange(w)
    /\ \E i \in Funcs, j \in Slots : dbSpam[i][j] > 0
    /\ \E i \in Funcs, j \in Slots : dbSpam[i][j] < dbTotal[i][j]

\* how many of the windows ws fall on counter j of row i
SlotHits(ws, i, j) == Cardinality({ k \in 1 .. Len(ws) : H(i, ws[k]) = j })

\* C37: when Train returns a read error, each counter has grown by the factor
\* once for every window Next returned before the failure that falls on it
\* (in the spam store only when training spam), and by nothing else.
C37_FailedTrainKeepsAdds ==
    (result.op = "train" /\ result.readErr) =>
        /\ result.windows = Len(emitted)
        /\ \A i \in Funcs, j \in Slots :
              /\ dbTotal[i][j] =
                     (preTotal[i][j] + result.factor * SlotHits(emitted, i, j)) % CounterMod
              /\ dbSpam[i][j] =
                     IF result.spam
                     THEN (preSpam[i][j] + result.factor * SlotHits(emitted, i, j))
                              % CounterMod
                     ELSE preSpam[i][j]

\* a spam Train has failed after Next had returned a window
C37_Witness ==
    /\ result.op = "train"
    /\ result.readErr
    /\ result.spam
    /\ result.windows > 0
    /\ dbSpam # preSpam

\* C36: no step of a Classify call, from its entry to its return, changes a
\* counter of the total or the spam store or either store's dirty flag.
C36_ClassifyReadsOnly ==
    [][ (call.op = "classify" \/ call'.op = "classify") =>
            (dbTotal' = dbTotal /\ dbSpam' = dbSpam /\ cdirty' = cdirty) ]_vars

\* Classify has returned after scoring windows on trained stores of which
\* the spam store is clean
C36_Witness ==
    /\ result.op = "classify"
    /\ ~result.panic
    /\ result.windows > 0
    /\ dbTotal # ZeroField
    /\ cdirty.total
    /\ ~cdirty.spam

\* ------------------------------------------------------------- the training handler
\* One request at a time reaches trainingHandler of a server whose stores
\* start empty.  The query values are byte strings, as they arrive.
MaxRequests == 2

\* int is 64 bits wide in the build; here as wide as a counter
IntMax == (CounterMod \div 2) - 1
IntMin == -(CounterMod \div 2)

\* strconv.Atoi: an optional sign, then decimal digits, within the range of int
RECURSIVE AtoiDigits(_, _, _)
AtoiDigits(s, k, acc) ==
    IF k > Len(s) THEN [ ok |-> TRUE, n |-> acc ]
    ELSE IF s[k] < 48 \/ s[k] > 57 THEN [ ok |-> FALSE, n |-> 0 ]
    ELSE AtoiDigits(s, k + 1, 10 * acc + (s[k] - 48))

Atoi(s) ==
    LET signed == Len(s) > 0 /\ s[1] \in { 43, 45 }
        digits == IF signed THEN Tail(s) ELSE s
        d == AtoiDigits(digits, 1, 0)
        n == IF signed /\ s[1] = 45 THEN -d.n ELSE d.n
    IN  IF digits = << >> \/ ~d.ok \/ n < IntMin \/ n > IntMax
        THEN [ ok |-> FALSE, n |-> 0 ]
        ELSE [ ok |-> TRUE, n |-> n ]

\* uint64(learnFactor): the conversion keeps the bits of the int
ToUint64(n) == n % CounterMod

\* args.Get of "as" and of "factor": "" when the parameter is absent
Methods == { "GET", "POST" }
AsArgs == { "", "spam", "ham", "eggs" }
FactorArgs == { << >>, << 49 >>, << 45, 49 >>, << 120 >> }

\* the request bodies: "", "foobar", and "foobar" cut short by a read error
Bodies ==
    { StreamOf(<< >>, "eof"), StreamOf(<< TextFoobar >>, "eof"),
      StreamOf(<< TextFoobar >>, "err") }

\* if trainAs == "" { trainAs = "spam" }
TrainAsOf(asArg) == IF asArg = "" THEN "spam" ELSE asArg

\* if learnFactorArg == "" { learnFactorArg = "1" }
LearnFactorArgOf(factorArg) == IF factorArg = << >> THEN << 49 >> ELSE factorArg

\* trainingHandler up to its call of Train
HandleTrain(method, asArg, factorArg, body) ==
    /\ clf.by = "main"
    /\ call.op = "none"
    /\ left > 0
    /\ LET trainAs == TrainAsOf(asArg)
           learnFactor == Atoi(LearnFactorArgOf(factorArg))
       IN  IF method # "POST"
           THEN /\ resp' = "405"
                /\ left' = left - 1
                /\ UNCHANGED << COther, clf, exited, dbTotal, dbSpam, call, rd, eta, etaMin,
                                etaMax, result, sink, cdirty, emitted, adds, preTotal,
                                preSpam, trained, trains, offScript >>
           ELSE IF trainAs \notin { "spam", "ham" } \/ ~learnFactor.ok
           THEN /\ resp' = "panic"
                /\ left' = left - 1
                /\ UNCHANGED << COther, clf, exited, dbTotal, dbSpam, call, rd, eta, etaMin,
                                etaMax, result, sink, cdirty, emitted, adds, preTotal,
                                preSpam, trained, trains, offScript >>
           ELSE /\ resp' = "pending"
                /\ EnterTrain(body, trainAs = "spam", ToUint64(learnFactor.n))

\* one pass of Train's loop in the handler; when Train returns the handler
\* answers 500 on an error and 200 otherwise
HandlerTrainStep ==
    /\ resp = "pending"
    /\ TrainPass
    /\ resp' = IF call'.op # "none" THEN resp
               ELSE IF result'.err THEN "500" ELSE "200"

InitHandler ==
    /\ f = ZeroField
    /\ nops = 0
    /\ FIdle
    /\ XIdle
    /\ DBIdle(ZeroField)
    /\ disk = NoFile
    /\ reopened = NotOpened
    /\ CIdle(MaxRequests)
    /\ RIdle

NextHandler ==
    \/ \E tUnsure \in Thresholds, tSpam \in Thresholds : MainStart(tUnsure, tSpam)
    \/ \E method \in Methods, asArg \in AsArgs, factorArg \in FactorArgs, body \in Bodies :
           HandleTrain(method, asArg, factorArg, body)
    \/ HandlerTrainStep

SpecHandler == InitHandler /\ [][NextHandler]_vars

\* C35: whatever factor a training request carries, no counter of either
\* store is lower than it was when the request's Train call was entered.
C35_TrainingNeverLowers ==
    (resp \in { "pending", "200", "500" }) =>
        \A i \in Funcs, j \in Slots :
            /\ dbTotal[i][j] >= preTotal[i][j]
            /\ dbSpam[i][j] >= preSpam[i][j]

\* ------------------------------------------------------------- one store in the server
\* main starts Run on the store and serves requests: /train reaches DB.Add,
\* /classify reaches DB.Score, each on the goroutine of its request.  On a
\* signal the signal goroutine calls done(); srv.Shutdown is then called with
\* the cancelled context and returns without waiting for the requests in
\* progress.  Only requests accepted before the signal are taken up here.

\* s := <-sigChan; done(): at any time, whatever the requests are doing
Interrupt ==
    /\ ~cancelled
    /\ cancelled' = TRUE
    /\ UNCHANGED << cvars, rvars, xvars, f, nops, fvars, dirty, mu, disk, tmp, strays,
                    nfail, run, done, buf, enc, werr, cl, lin, snap, diskSnap, passes,
                    reopened >>

NextServer ==
    \/ \E p \in Procs, w \in DBWindows, d \in DBDeltas : ClientCall(p, "add", w, d)
    \/ \E p \in Procs, w \in DBWindows : ClientCall(p, "score", w, 0)
    \/ \E p \in Procs : DBLock(p)
    \/ \E p \in Procs : DBStep(p)
    \/ \E p \in Procs : DBSetDirty(p)
    \/ \E p \in Procs : DBUnlock(p)
    \/ \E p \in Procs : DBRLock(p)
    \/ \E p \in Procs : DBScoreStep(p)
    \/ \E p \in Procs : DBRUnlock(p)
    \/ Interrupt
    \/ RunSelectTick
    \/ RunSelectDone
    \/ RunCheck
    \/ RunCreate
    \/ RunCreateFail
    \/ RunRLock
    \/ RunEncode
    \/ RunWrite
    \/ RunWriteFail
    \/ RunRUnlock
    \/ RunRename
    \/ RunRenameFail
    \/ RunFailed
    \/ RunClear

SpecServer == InitDB /\ [][NextServer]_vars

\* Run has seen the cancellation and its last pass has read the filter, or
\* Run has gone through its last check
FinalPassRead ==
    /\ done
    /\ run \in { "runlock", "rename", "failed", "clear", "returned" }

\* C31: once cancellation has been requested and the store's final persist
\* pass has read the filter, no request changes a counter of the store.
C31_NoAddAfterFinalPass ==
    [][ FinalPassRead => f' = f ]_vars

\* ------------------------------------------------------------- Train and Classify at once
\* Training goroutines are in trainWord while the classifying goroutine is in
\* getWord.  Each DB.Add and DB.Score is one step, taken under the store's
\* lock; between the two calls of trainWord, and between the two of getWord,
\* the other goroutines run.  The factor is 1 and at most MaxUint windows are
\* trained, so no counter leaves its range.
KUnchanged ==
    << f, nops, fvars, dbvars, disk, reopened, rvars, hvars, ivars, clf, exited, call, rd,
       eta, etaMin, etaMax, result, sink, emitted, adds, preTotal, preSpam, trained,
       trains, offScript >>

\* trainWord(word, spam, 1) is entered on goroutine t
TrainWordCall(t, w, isSpam) ==
    /\ clf.by = "main"
    /\ tw[t].pc \in { "idle", "done" }
    /\ left > 0
    /\ left' = left - 1
    /\ tw' = [ tw EXCEPT ![t] = [ pc |-> "total", word |-> w, spam |-> isSpam,
                                  factor |-> 1 ] ]
    /\ UNCHANGED << KUnchanged, dbTotal, dbSpam, cdirty, gw >>

\* c.dbTotal.Add(word, factor)
TrainWordTotal(t) ==
    /\ tw[t].pc = "total"
    /\ dbTotal' = FAdd(dbTotal, tw[t].word, tw[t].factor)
    /\ cdirty' = [ cdirty EXCEPT !.total = DBAddDirty(@) ]
    /\ tw' = [ tw EXCEPT ![t].pc = IF tw[t].spam THEN "spam" ELSE "done" ]
    /\ UNCHANGED << KUnchanged, dbSpam, gw, left >>

\* if spam { c.dbSpam.Add(word, factor) }
TrainWordSpam(t) ==
    /\ tw[t].pc = "spam"
    /\ dbSpam' = FAdd(dbSpam, tw[t].word, tw[t].factor)
    /\ cdirty' = [ cdirty EXCEPT !.spam = DBAddDirty(@) ]
    /\ tw' = [ tw EXCEPT ![t].pc = "done" ]
    /\ UNCHANGED << KUnchanged, dbTotal, gw, left >>

\* getWord(word) is entered on the classifying goroutine
GetWordCall(w) ==
    /\ clf.by = "main"
    /\ gw.pc \in { "idle", "got" }
    /\ gw' = [ pc |-> "total", word |-> w, Total |-> 0, Spam |-> 0 ]
    /\ UNCHANGED << KUnchanged, dbTotal, dbSpam, cdirty, tw, left >>

\* Total: c.dbTotal.Score(word)
GetWordTotal ==
    /\ gw.pc = "total"
    /\ gw' = [ gw EXCEPT !.pc = "spam", !.Total = FScore(dbTotal, gw.word) ]
    /\ cdirty' = [ cdirty EXCEPT !.total = DBScoreDirty(@) ]
    /\ UNCHANGED << KUnchanged, dbTotal, dbSpam, tw, left >>

\* Spam: c.dbSpam.Score(word); the Word is returned
GetWordSpam ==
    /\ gw.pc = "spam"
    /\ gw' = [ gw EXCEPT !.pc = "got", !.Spam = FScore(dbSpam, gw.word) ]
    /\ cdirty' = [ cdirty EXCEPT !.spam = DBScoreDirty(@) ]
    /\ UNCHANGED << KUnchanged, dbTotal, dbSpam, tw, left >>

InitK ==
    /\ f = ZeroField
    /\ nops = 0
    /\ FIdle
    /\ XIdle
    /\ DBIdle(ZeroField)
    /\ disk = NoFile
    /\ reopened = NotOpened
    /\ CIdle(MaxUint)
    /\ RIdle

NextK ==
    \/ \E tUnsure \in Thresholds, tSpam \in Thresholds : MainStart(tUnsure, tSpam)
    \/ \E t \in Trainers, w \in Windows, isSpam \in BOOLEAN : TrainWordCall(t, w, isSpam)
    \/ \E t \in Trainers : TrainWordTotal(t)
    \/ \E t \in Trainers : TrainWordSpam(t)
    \/ \E w \in Windows : GetWordCall(w)
    \/ GetWordTotal
    \/ GetWordSpam

SpecK == InitK /\ [][NextK]_vars

\* C33: whatever Train calls run beside it, the pair getWord returns for a
\* window has Spam <= Total.
C33_SpamAtMostTotalRead ==
    (gw.pc = "got") => gw.Spam <= gw.Total

\* the same for the stores themselves, between the reads or not
C33_StoresInOrder ==
    (\A t \in Trainers : tw[t].pc # "spam") =>
        \A w \in Windows : FScore(dbSpam, w) <= FScore(dbTotal, w)

\* ------------------------------------------------------------- package interval
\* leafUniverse scaled (64 in the source); the bit set summary is the set of
\* the positions of its bits that are 1; cluster[idx] is cluster[idx + 1].
LeafUniverse == 4
TreeMax == 16
MaxAdds == 4

\* derivePath: how often size can be divided by leafSize before it is 0, less one
RECURSIVE PathLen(_, _)
PathLen(size, leafSize) ==
    IF size > 0 THEN 1 + PathLen(size \div leafSize, leafSize) ELSE -1

\* derivePath: res[i] = input % leafSize; input /= leafSize, from the last place
RECURSIVE PathFill(_, _, _, _)
PathFill(res, i, leafSize, input) ==
    IF i < 1 THEN res
    ELSE PathFill([ res EXCEPT ![i] = input % leafSize ], i - 1, leafSize,
                  input \div leafSize)

derivePath(size, leafSize, input) ==
    LET l == PathLen(size, leafSize)
    IN  PathFill([ k \in 1 .. l |-> 0 ], l, leafSize, input)

\* protoVEB.set, for p.u a power of leafUniverse and val >= 0
RECURSIVE VebSet(_, _, _)
VebSet(p, val, path) ==
    IF p.u = LeafUniverse
    THEN [ p EXCEPT !.summary = @ \cup { val % p.u } ]
    ELSE LET cluster == IF p.cluster = << >>
                        THEN [ k \in 1 .. LeafUniverse |-> Nil ]
                        ELSE p.cluster
             idx == path[1]
             child == IF cluster[idx + 1] = Nil
                      THEN [ Nil EXCEPT !.u = p.u \div LeafUniverse ]
                      ELSE cluster[idx + 1]
         IN  [ p EXCEPT !.cluster =
                   [ cluster EXCEPT ![idx + 1] = VebSet(child, val, Tail(path)) ] ]

\* protoVEB.slice at a leaf: the bits of summary from i upwards
RECURSIVE LeafSlice(_, _)
LeafSlice(summary, i) ==
    IF i >= LeafUniverse THEN << >>
    ELSE (IF i \in summary THEN << i >> ELSE << >>) \o LeafSlice(summary, i + 1)

\* protoVEB.slice
RECURSIVE VebSlice(_)
RECURSIVE ClusterSlice(_, _)
ClusterSlice(cluster, idx) ==
    IF idx >= Len(cluster) THEN << >>
    ELSE LET c == cluster[idx + 1]
             cs == IF c = Nil THEN << >> ELSE VebSlice(c)
         IN  [ k \in 1 .. Len(cs) |-> cs[k] + idx * c.u ] \o ClusterSlice(cluster, idx + 1)

VebSlice(p) ==
    IF p.u = LeafUniverse THEN LeafSlice(p.summary, 0) ELSE ClusterSlice(p.cluster, 0)

\* Tree.init: the universe is the least power of leafUniverse that is >= Max
RECURSIVE UniverseOf(_, _)
UniverseOf(universe, max) ==
    IF universe < max THEN UniverseOf(universe * LeafUniverse, max) ELSE universe

TreeInit(t) == [ t EXCEPT !.root = [ Nil EXCEPT !.u = UniverseOf(LeafUniverse, t.Max) ] ]

\* Tree.add
TreeAddVal(t, val) ==
    LET t1 == IF t.root = Nil THEN TreeInit(t) ELSE t
    IN  [ t1 EXCEPT !.root = VebSet(t1.root, val, derivePath(t1.root.u, LeafUniverse, val)) ]

\* Tree.slice after its loop: if rest { res = append(res, Interval{start, end + 1}) }
TreeSliceLast(res, start, end, rest) ==
    IF rest THEN Append(res, << start, end + 1 >>) ELSE res

\* Tree.slice: the loop over s[1:]
RECURSIVE TreeSliceLoop(_, _, _, _, _, _)
TreeSliceLoop(s, k, start, end, rest, res) ==
    IF k > Len(s) THEN TreeSliceLast(res, start, end, rest)
    ELSE IF s[k] = end + 1
    THEN TreeSliceLoop(s, k + 1, start, s[k], TRUE, res)
    ELSE TreeSliceLoop(s, k + 1, s[k], s[k], FALSE, Append(res, << start, end + 1 >>))

\* Tree.slice, for a root that is not nil
TreeSliceOf(t) ==
    LET s == VebSlice(t.root)
    IN  IF Len(s) = 0 THEN << >>
        ELSE TreeSliceLoop(s, 2, s[1], s[1], FALSE, << >>)

\* sort.Ints of the keys of Set.m
RECURSIVE SortInts(_)
SortInts(S) ==
    IF S = {} THEN << >>
    ELSE LET lo == CHOOSE x \in S : \A y \in S : x <= y
         IN  << lo >> \o SortInts(S \ { lo })

\* Set.slice: the loop over indices[1:], then the append of current unless
\* it is the last interval already
RECURSIVE SetSliceLoop(_, _, _, _)
SetSliceLoop(indices, k, current, intervals) ==
    IF k > Len(indices)
    THEN IF Len(intervals) = 0 \/ intervals[Len(intervals)] # current
         THEN Append(intervals, current) ELSE intervals
    ELSE IF current[2] = indices[k] - 1
    THEN SetSliceLoop(indices, k + 1, << current[1], indices[k] >>, intervals)
    ELSE SetSliceLoop(indices, k + 1, << indices[k], indices[k] >>,
                      Append(intervals, current))

\* Set.slice
SetSliceOf(m) ==
    IF Cardinality(m) = 0 THEN << >>
    ELSE LET indices == SortInts(m)
         IN  SetSliceLoop(indices, 2, << indices[1], indices[1] >>, << >>)

IUnchanged == << f, fvars, dbvars, disk, reopened, cvars, rvars, hvars, kvars >>

\* t.add(val) on the Tree and on the Set
IntervalAdd(val) ==
    /\ nops < MaxAdds
    /\ nops' = nops + 1
    /\ tree' = TreeAddVal(tree, val)
    /\ added' = added \cup { val }
    /\ ivs' = NoSlice
    /\ UNCHANGED IUnchanged

\* Tree.slice: t.root.slice() on a nil root is a nil dereference
CallTreeSlice ==
    /\ ivs' = IF tree.root = Nil
              THEN [ called |-> TRUE, by |-> "tree", panic |-> TRUE, res |-> << >> ]
              ELSE [ called |-> TRUE, by |-> "tree", panic |-> FALSE,
                     res |-> TreeSliceOf(tree) ]
    /\ UNCHANGED << IUnchanged, nops, tree, added >>

\* Set.slice
CallSetSlice ==
    /\ ivs' = [ called |-> TRUE, by |-> "set", panic |-> FALSE, res |-> SetSliceOf(added) ]
    /\ UNCHANGED << IUnchanged, nops, tree, added >>

InitI ==
    /\ f = ZeroField
    /\ nops = 0
    /\ FIdle
    /\ HIdle
    /\ KIdle
    /\ tree = [ NoTree EXCEPT !.Max = TreeMax ]
    /\ added = {}
    /\ ivs = NoSlice
    /\ DBIdle(ZeroField)
    /\ disk = NoFile
    /\ reopened = NotOpened
    /\ CIdle(0)
    /\ RIdle

NextI ==
    \/ \E val \in 0 .. (TreeMax - 1) : IntervalAdd(val)
    \/ CallTreeSlice
    \/ CallSetSlice

SpecI == InitI /\ [][NextI]_vars

\* the values an interval of the latest slice covers: Tree's tests read its
\* intervals as ending before End, Set's as ending at End
CoveredBy(iv) ==
    IF ivs.by = "tree" THEN iv[1] .. (iv[2] - 1) ELSE iv[1] .. iv[2]

\* the intervals are the maximal runs of the added values, in order
ExactRuns ==
    /\ ~ivs.panic
    /\ UNION { CoveredBy(ivs.res[k]) : k \in 1 .. Len(ivs.res) } = added
    /\ \A k \in 1 .. Len(ivs.res) : CoveredBy(ivs.res[k]) # {}
    /\ \A k \in 1 .. (Len(ivs.res) - 1) :
           \A x \in CoveredBy(ivs.res[k]), y \in CoveredBy(ivs.res[k + 1]) : x + 1 < y

\* C39: slice returns the maximal runs of the added values as sorted,
\* pairwise disjoint intervals whose union is the set of the added values.
C39_SliceIsExact ==
    (ivs.called /\ added # {}) => ExactRuns

\* the same of Set.slice alone
C39_SetSliceIsExact ==
    (ivs.called /\ ivs.by = "set") => ExactRuns

\* the same of Tree.slice when the greatest value added ends a longer run
C39_TreeSliceIsExactOnRuns ==
    (ivs.called /\ ivs.by = "tree" /\ added # {}
        /\ \A x \in added : (\A y \in added : y <= x) => (x - 1) \in added)
        => ExactRuns

====
